---- MODULE Spec2Model ----
(***************************************************************************)
(* A model of the matching / diff engine of ExcelCompare:                  *)
(*   src/src/services/compare_service.py        CompareService             *)
(*   src/src/services/smart_compare_service.py  SmartCompareService        *)
(*   src/src/views/main_window.py               the compare handlers       *)
(* Rows and columns are 0-indexed as in the source; TLA+ sequences are     *)
(* 1-indexed, so row r of a sheet is rows[r + 1].                           *)
(***************************************************************************)
EXTENDS Integers, Sequences, FiniteSets, TLC

VARIABLES
    workbook_a,      \* MainWindow._workbook_a: the sheet loaded as file A
    workbook_b,      \* MainWindow._workbook_b: the sheet loaded as file B
    call,            \* the handler that ran and the arguments it read
    compare_result,  \* MainWindow._compare_result
    current_diff_index   \* MainWindow._current_diff_index

vars == <<workbook_a, workbook_b, call, compare_result, current_diff_index>>

(***************************************************************************)
(* Python values.  A text is a sequence of one-character strings, so that   *)
(* str.lower and str.strip are computed, not assumed.                       *)
(***************************************************************************)
None == [t |-> "none", s |-> <<>>, n |-> 0]
Str(chars) == [t |-> "str", s |-> chars, n |-> 0]
Num(k) == [t |-> "num", s |-> <<>>, n |-> k]
Bool(b) == [t |-> "bool", s |-> <<>>, n |-> IF b THEN 1 ELSE 0]

EmptyStr == Str(<<>>)

isinstance_str(v) == v.t = "str"

\* Python ==: None equals only None, a text only the same text, and
\* bool is a subclass of int (True == 1, False == 0).
PyEq(a, b) ==
    IF a.t = "none" \/ b.t = "none" THEN a.t = b.t
    ELSE IF a.t = "str" \/ b.t = "str" THEN a.t = b.t /\ a.s = b.s
    ELSE a.n = b.n

\* Python truth value: None, "", 0 and False are false.
Truthy(v) ==
    IF v.t = "none" THEN FALSE
    ELSE IF v.t = "str" THEN v.s # <<>>
    ELSE v.n # 0

LowerChar(c) ==
    IF c = "A" THEN "a" ELSE IF c = "B" THEN "b"
    ELSE IF c = "K" THEN "k" ELSE IF c = "J" THEN "j"
    ELSE IF c = "N" THEN "n" ELSE IF c = "X" THEN "x"
    ELSE IF c = "Y" THEN "y" ELSE IF c = "T" THEN "t"
    ELSE IF c = "F" THEN "f" ELSE c

lower(chars) == [i \in DOMAIN chars |-> LowerChar(chars[i])]

SetMin(S) == CHOOSE x \in S : \A y \in S : x <= y
SetMax(S) == CHOOSE x \in S : \A y \in S : y <= x

strip(chars) ==
    LET keep == {i \in DOMAIN chars : chars[i] # " "}
    IN  IF keep = {} THEN <<>> ELSE SubSeq(chars, SetMin(keep), SetMax(keep))

Digit(k) ==
    IF k = 0 THEN "0" ELSE IF k = 1 THEN "1" ELSE IF k = 2 THEN "2"
    ELSE IF k = 3 THEN "3" ELSE IF k = 4 THEN "4" ELSE IF k = 5 THEN "5"
    ELSE IF k = 6 THEN "6" ELSE IF k = 7 THEN "7" ELSE IF k = 8 THEN "8"
    ELSE "9"

RECURSIVE Digits(_)
Digits(k) == IF k < 10 THEN <<Digit(k)>> ELSE Digits(k \div 10) \o <<Digit(k % 10)>>

\* str(v) of a non-negative int, a bool, a text or None.
PyStr(v) ==
    IF v.t = "str" THEN v.s
    ELSE IF v.t = "num" THEN Digits(v.n)
    ELSE IF v.t = "bool" THEN
        (IF v.n = 1 THEN <<"T", "r", "u", "e">> ELSE <<"F", "a", "l", "s", "e">>)
    ELSE <<"N", "o", "n", "e">>

\* val.lower() / val.strip() applied only to str instances.
LowerIfStr(v) == IF isinstance_str(v) THEN Str(lower(v.s)) ELSE v
StripIfStr(v) == IF isinstance_str(v) THEN Str(strip(v.s)) ELSE v

\* `v is None or v == ""`
IsBlank(v) == v = None \/ PyEq(v, EmptyStr)

\* `val is not None and str(val).strip() != ""`
HasText(v) == v # None /\ strip(PyStr(v)) # <<>>

(***************************************************************************)
(* Optional[int]: None is <<>>, the int k is <<k>>.                         *)
(***************************************************************************)
NoInt == <<>>
Some(k) == <<k>>
IsSome(o) == o # <<>>
Val(o) == o[1]
OptEq(k, o) == IsSome(o) /\ Val(o) = k

Max2(x, y) == IF x >= y THEN x ELSE y
Min2(x, y) == IF x <= y THEN x ELSE y
Abs(x) == IF x < 0 THEN -x ELSE x

(***************************************************************************)
(* excel_model.py: cells and sheets.  A loaded sheet is rectangular and    *)
(* row_count / col_count are the lengths of rows (excel_service.py).        *)
(***************************************************************************)
CellData(v, st) == [value |-> v, style |-> st]

\* What a caller reads from `get_cell(...) -> None`: value None, style None.
NoCell == CellData(None, "none")

Cell(v) == CellData(v, "plain")

SheetData(nm, rws) == [name |-> nm, rows |-> rws]

row_count(sheet) == Len(sheet.rows)
col_count(sheet) == IF Len(sheet.rows) = 0 THEN 0 ELSE Len(sheet.rows[1])

get_cell(sheet, row, col) ==
    IF 0 <= row /\ row < Len(sheet.rows) /\ 0 <= col /\ col < Len(sheet.rows[row + 1])
    THEN sheet.rows[row + 1][col + 1]
    ELSE NoCell

is_empty(cell) == cell.value = None \/ PyEq(cell.value, EmptyStr)

(***************************************************************************)
(* diff_model.py                                                            *)
(***************************************************************************)
MODIFIED == "modified"
ADDED == "added"
DELETED == "deleted"
FORMAT_CHANGED == "format"

DiffResult(sheet, row, col, diff_type, old_value, new_value, row_b, col_b) ==
    [sheet |-> sheet, row |-> row, col |-> col, diff_type |-> diff_type,
     old_value |-> old_value, new_value |-> new_value,
     row_b |-> row_b, col_b |-> col_b]

CountKind(diffs, kind) == Cardinality({i \in DOMAIN diffs : diffs[i].diff_type = kind})

\* A faulty variant: a format change is counted in the total only.
add_diff_TotalOnlyForFormat(summary, diff_type) ==
    LET counted == [summary EXCEPT !.total = @ + 1]
    IN  IF diff_type = MODIFIED THEN [counted EXCEPT !.modified = @ + 1]
        ELSE IF diff_type = ADDED THEN [counted EXCEPT !.added = @ + 1]
        ELSE IF diff_type = DELETED THEN [counted EXCEPT !.deleted = @ + 1]
        ELSE counted

\* DiffSummary.add_diff
add_diff(summary, diff_type) ==
    LET counted == [summary EXCEPT !.total = @ + 1]
    IN  IF diff_type = MODIFIED THEN [counted EXCEPT !.modified = @ + 1]
        ELSE IF diff_type = ADDED THEN [counted EXCEPT !.added = @ + 1]
        ELSE IF diff_type = DELETED THEN [counted EXCEPT !.deleted = @ + 1]
        ELSE IF diff_type = FORMAT_CHANGED THEN [counted EXCEPT !.format_changed = @ + 1]
        ELSE counted

\* `summary = DiffSummary()`, then `for diff in diffs:
\* summary.add_diff(diff.diff_type)`, from record k on.
RECURSIVE SummaryFrom(_, _, _)
SummaryFrom(summary, diffs, k) ==
    IF k > Len(diffs) THEN summary
    ELSE SummaryFrom(add_diff(summary, diffs[k].diff_type), diffs, k + 1)

DiffSummary(diffs) ==
    SummaryFrom([total |-> 0, modified |-> 0, added |-> 0, deleted |-> 0,
                 format_changed |-> 0], diffs, 1)

\* Concatenation of the record lists f[lo], f[lo+1], ..., f[hi].
RECURSIVE Concat(_, _, _)
Concat(f, lo, hi) == IF lo > hi THEN <<>> ELSE f[lo] \o Concat(f, lo + 1, hi)

RECURSIVE SeqOfSet(_)
SeqOfSet(S) ==
    IF S = {} THEN <<>>
    ELSE LET x == SetMin(S) IN <<x>> \o SeqOfSet(S \ {x})

(***************************************************************************)
(* compare_service.py                                                       *)
(***************************************************************************)
CompareOptions(ic, iw, ier, ifmt) ==
    [ignore_case |-> ic, ignore_whitespace |-> iw,
     ignore_empty_rows |-> ier, ignore_format |-> ifmt]

_compare_styles(cell_a, cell_b) ==
    IF cell_a.style = "none" /\ cell_b.style = "none" THEN FALSE
    ELSE IF cell_a.style = "none" \/ cell_b.style = "none" THEN TRUE
    ELSE cell_a.style # cell_b.style

\* The values after the ignore options (lines 300-309): lower-casing needs
\* both sides to be text, stripping is applied to each side on its own.
NormA(cell_a, cell_b, options) ==
    LET v1 == IF options.ignore_case /\ isinstance_str(cell_a.value)
                 /\ isinstance_str(cell_b.value)
              THEN LowerIfStr(cell_a.value) ELSE cell_a.value
    IN  IF options.ignore_whitespace THEN StripIfStr(v1) ELSE v1

\* A faulty variant: ignore_case lower-cases the A side only.
compare_cells_LowerAOnly(sheet_name, row, col, cell_a, cell_b, options) ==
    LET val_a == NormA(cell_a, cell_b, options)
        val_b == IF options.ignore_whitespace THEN StripIfStr(cell_b.value) ELSE cell_b.value
        is_empty_a == IsBlank(val_a)
        is_empty_b == IsBlank(val_b)
    IN  IF is_empty_a /\ is_empty_b THEN <<>>
        ELSE IF PyEq(val_a, val_b) THEN
            (IF ~options.ignore_format /\ _compare_styles(cell_a, cell_b)
             THEN <<DiffResult(sheet_name, row, col, FORMAT_CHANGED,
                               val_a, val_b, NoInt, NoInt)>>
             ELSE <<>>)
        ELSE <<DiffResult(sheet_name, row, col,
                          IF is_empty_a /\ ~is_empty_b THEN ADDED
                          ELSE IF ~is_empty_a /\ is_empty_b THEN DELETED
                          ELSE MODIFIED,
                          cell_a.value, cell_b.value, NoInt, NoInt)>>

\* Returns <<>> for `None`, <<record>> for a DiffResult.
_compare_cells(sheet_name, row, col, cell_a, cell_b, options) ==
    LET val_a == NormA(cell_a, cell_b, options)
        val_b == NormA(cell_b, cell_a, options)
        is_empty_a == IsBlank(val_a)
        is_empty_b == IsBlank(val_b)
    IN  IF is_empty_a /\ is_empty_b THEN <<>>
        ELSE IF PyEq(val_a, val_b) THEN
            (IF ~options.ignore_format /\ _compare_styles(cell_a, cell_b)
             THEN <<DiffResult(sheet_name, row, col, FORMAT_CHANGED,
                               val_a, val_b, NoInt, NoInt)>>
             ELSE <<>>)
        ELSE <<DiffResult(sheet_name, row, col,
                          IF is_empty_a /\ ~is_empty_b THEN ADDED
                          ELSE IF ~is_empty_a /\ is_empty_b THEN DELETED
                          ELSE MODIFIED,
                          cell_a.value, cell_b.value, NoInt, NoInt)>>

_is_row_empty(sheet, row) ==
    IF row >= Len(sheet.rows) THEN TRUE
    ELSE \A c \in DOMAIN sheet.rows[row + 1] : is_empty(sheet.rows[row + 1][c])

\* A faulty variant: the loops run over sheet A's extent only.
compare_exact_ExtentOfA(sheet_a, sheet_b, options) ==
    LET max_rows == row_count(sheet_a)
        max_cols == col_count(sheet_a)
        RowDiffs(row) ==
            IF options.ignore_empty_rows /\ _is_row_empty(sheet_a, row)
               /\ _is_row_empty(sheet_b, row)
            THEN <<>>
            ELSE Concat([c \in 1..max_cols |->
                           _compare_cells(sheet_a.name, row, c - 1,
                                          get_cell(sheet_a, row, c - 1),
                                          get_cell(sheet_b, row, c - 1), options)],
                        1, max_cols)
    IN  Concat([r \in 1..max_rows |-> RowDiffs(r - 1)], 1, max_rows)

_compare_exact(sheet_a, sheet_b, options) ==
    LET max_rows == Max2(row_count(sheet_a), row_count(sheet_b))
        max_cols == Max2(col_count(sheet_a), col_count(sheet_b))
        RowDiffs(row) ==
            IF options.ignore_empty_rows /\ _is_row_empty(sheet_a, row)
               /\ _is_row_empty(sheet_b, row)
            THEN <<>>
            ELSE Concat([c \in 1..max_cols |->
                           _compare_cells(sheet_a.name, row, c - 1,
                                          get_cell(sheet_a, row, c - 1),
                                          get_cell(sheet_b, row, c - 1), options)],
                        1, max_cols)
    IN  Concat([r \in 1..max_rows |-> RowDiffs(r - 1)], 1, max_rows)

\* A CompareResult; `matches` records the row pairs the greedy pairing of a
\* key-based handler accepted (its local `matches` lists), `set` is FALSE
\* for `_compare_result = None`.
CompareResult(diffs, matches) ==
    [set |-> TRUE, diffs |-> diffs, summary |-> DiffSummary(diffs), matches |-> matches]

NoResult == [set |-> FALSE, diffs |-> <<>>, summary |-> DiffSummary(<<>>), matches |-> {}]

(***************************************************************************)
(* main_window.py: the helpers shared by the compare handlers               *)
(***************************************************************************)
\* A faulty variant: ignore_case lower-cases the A side only.
values_differ_LowerAOnly(val_a, val_b, options) ==
    LET la == IF options.ignore_case THEN LowerIfStr(val_a) ELSE val_a
        cmp_a == IF options.ignore_whitespace THEN StripIfStr(la) ELSE la
        cmp_b == IF options.ignore_whitespace THEN StripIfStr(val_b) ELSE val_b
    IN  IF options.ignore_empty_rows /\ IsBlank(cmp_a) /\ IsBlank(cmp_b) THEN FALSE
        ELSE ~PyEq(cmp_a, cmp_b)

\* _values_differ: whether two values differ under the ignore options.
_values_differ(val_a, val_b, options) ==
    LET la == IF options.ignore_case THEN LowerIfStr(val_a) ELSE val_a
        lb == IF options.ignore_case THEN LowerIfStr(val_b) ELSE val_b
        cmp_a == IF options.ignore_whitespace THEN StripIfStr(la) ELSE la
        cmp_b == IF options.ignore_whitespace THEN StripIfStr(lb) ELSE lb
    IN  IF options.ignore_empty_rows /\ IsBlank(cmp_a) /\ IsBlank(cmp_b) THEN FALSE
        ELSE ~PyEq(cmp_a, cmp_b)

_get_diff_type(val_a, val_b) ==
    IF IsBlank(val_a) /\ Truthy(val_b) THEN ADDED
    ELSE IF Truthy(val_a) /\ IsBlank(val_b) THEN DELETED
    ELSE MODIFIED

\* `row_data[i] if i < len(row_data) else None`; a negative i counts from the
\* end of the list, as Python indexing does.
ListGet(row_data, i) ==
    IF i >= Len(row_data) THEN None
    ELSE IF i >= 0 THEN row_data[i + 1]
    ELSE row_data[Len(row_data) + i + 1]

\* extract_row_data: the values of one row over the sheet's col_count.
extract_row_data(sheet, row_idx) ==
    [c \in 1..col_count(sheet) |-> get_cell(sheet, row_idx, c - 1).value]

\* The header key of a cell: str(val).strip().lower().
HeaderKey(v) == lower(strip(PyStr(v)))

\* A header dict built by `headers[key] = col` over the cells in column
\* order: one entry per key, in the order of the key's first column, holding
\* the key's last column.  vals[i] is the header cell of column offset i - 1.
HeaderDict(vals) ==
    LET named == {i \in DOMAIN vals : HasText(vals[i])}
        first == {i \in named : \A j \in named : j < i => HeaderKey(vals[j]) # HeaderKey(vals[i])}
        Entry(i) == [key |-> HeaderKey(vals[i]),
                     col |-> SetMax({j \in named : HeaderKey(vals[j]) = HeaderKey(vals[i])}) - 1]
        order == SeqOfSet(first)
    IN  [k \in DOMAIN order |-> Entry(order[k])]

\* col_map_a_to_b as the list of its items (col_a, col_b), in dict order.
ColMap(headers_a, headers_b) ==
    LET InB(e) == \E k \in DOMAIN headers_b : headers_b[k].key = e.key
        ColB(e) == headers_b[CHOOSE k \in DOMAIN headers_b : headers_b[k].key = e.key].col
        common == SelectSeq(headers_a, InB)
    IN  [k \in DOMAIN common |-> <<common[k].col, ColB(common[k])>>]

\* make_key: None is <<>>, a key is its non-empty text.
make_key(row_data, col1, col2, options) ==
    LET val1 == ListGet(row_data, col1)
        val2 == IF IsSome(col2) THEN ListGet(row_data, Val(col2)) ELSE None
        key1 == strip(PyStr(val1))
        key == IF IsSome(col2) /\ HasText(val2)
               THEN key1 \o <<"|">> \o strip(PyStr(val2)) ELSE key1
    IN  IF ~HasText(val1) THEN <<>>
        ELSE IF options.ignore_case THEN lower(key) ELSE key

\* rows[key]: the (row_idx, row_data) entries appended for `key`, in row
\* order.  `entries` are the candidate rows, in iteration order.
RowsOfKey(entries, key, col1, col2, options) ==
    SelectSeq(entries, LAMBDA e : make_key(e.data, col1, col2, options) = key)

KeysOf(entries, col1, col2, options) ==
    {make_key(entries[k].data, col1, col2, options) : k \in DOMAIN entries} \ {<<>>}

\* A faulty variant: every candidate pair gets the distance 0.
CandidatePairs_NoDistance(list_a, list_b) ==
    {<<0, i - 1, j - 1>> : i \in DOMAIN list_a, j \in DOMAIN list_b}

\* The candidate list `pairs` (dist, i, j), i and j 0-indexed list positions.
CandidatePairs(list_a, list_b) ==
    {<<Abs(list_a[i].idx - list_b[j].idx), i - 1, j - 1>> :
        i \in DOMAIN list_a, j \in DOMAIN list_b}

\* A faulty variant: among equal distances the later pair comes first.
PairBefore_LaterFirst(p, q) ==
    \/ p[1] < q[1]
    \/ p[1] = q[1] /\ p[2] > q[2]
    \/ p[1] = q[1] /\ p[2] = q[2] /\ p[3] >= q[3]

\* pairs.sort(key=lambda x: x[0]) is stable: equal distances keep the order
\* in which the nested loops appended them (i outer, j inner).
PairBefore(p, q) ==
    \/ p[1] < q[1]
    \/ p[1] = q[1] /\ p[2] < q[2]
    \/ p[1] = q[1] /\ p[2] = q[2] /\ p[3] <= q[3]

RECURSIVE SortPairs(_)
SortPairs(S) ==
    IF S = {} THEN <<>>
    ELSE LET p == CHOOSE x \in S : \A y \in S : PairBefore(x, y)
         IN  <<p>> \o SortPairs(S \ {p})

\* A faulty variant: a pair is accepted when its A row is free, whatever its B row.
RECURSIVE GreedySelect_IgnoreUsedB(_, _, _, _)
GreedySelect_IgnoreUsedB(pairs, k, used_a, used_b) ==
    IF k > Len(pairs) THEN <<>>
    ELSE IF pairs[k][2] \notin used_a
         THEN <<pairs[k]>> \o GreedySelect_IgnoreUsedB(pairs, k + 1,
                                  used_a \cup {pairs[k][2]}, used_b \cup {pairs[k][3]})
         ELSE GreedySelect_IgnoreUsedB(pairs, k + 1, used_a, used_b)

\* The greedy loop over the sorted pairs from position k on: the accepted
\* pairs, in the order they are accepted.
RECURSIVE GreedySelect(_, _, _, _)
GreedySelect(pairs, k, used_a, used_b) ==
    IF k > Len(pairs) THEN <<>>
    ELSE IF pairs[k][2] \notin used_a /\ pairs[k][3] \notin used_b
         THEN <<pairs[k]>> \o GreedySelect(pairs, k + 1,
                                  used_a \cup {pairs[k][2]}, used_b \cup {pairs[k][3]})
         ELSE GreedySelect(pairs, k + 1, used_a, used_b)

\* A faulty variant: the candidates are taken in list order, not by distance.
GreedyMatch_Unsorted(list_a, list_b) ==
    LET S == CandidatePairs(list_a, list_b)
        ByIndex(p, q) == p[2] < q[2] \/ (p[2] = q[2] /\ p[3] <= q[3])
        order == [k \in 1..Cardinality(S) |->
                    CHOOSE p \in S : Cardinality({q \in S : ByIndex(q, p)}) = k]
    IN  GreedySelect(order, 1, {}, {})

\* The accepted (dist, i, j) triples for one key.
GreedyMatch(list_a, list_b) ==
    GreedySelect(SortPairs(CandidatePairs(list_a, list_b)), 1, {}, {})

used_a_of(accepted) == {accepted[k][2] : k \in DOMAIN accepted}
used_b_of(accepted) == {accepted[k][3] : k \in DOMAIN accepted}

\* One compared cell pair of the handlers: a record when the values differ.
CellDiff(sheet_name, row, col, row_b, col_b, val_a, val_b, options) ==
    IF _values_differ(val_a, val_b, options)
    THEN <<DiffResult(sheet_name, row, col, _get_diff_type(val_a, val_b),
                      val_a, val_b, Some(row_b), Some(col_b))>>
    ELSE <<>>

\* "处理未匹配的A（删除整行）": one Deleted record per cell with text.
\* col_base is the absolute column of the row's first cell.
DeletedRow(sheet_name, e, col_base) ==
    Concat([c \in DOMAIN e.data |->
              IF HasText(e.data[c])
              THEN <<DiffResult(sheet_name, e.idx, col_base + c - 1, DELETED,
                                e.data[c], None, NoInt, NoInt)>>
              ELSE <<>>], 1, Len(e.data))

\* "处理未匹配的B（新增整行）": one Added record per cell with text.
AddedRow(sheet_name, e, col_base) ==
    Concat([c \in DOMAIN e.data |->
              IF HasText(e.data[c])
              THEN <<DiffResult(sheet_name, e.idx, col_base + c - 1, ADDED,
                                None, e.data[c], Some(e.idx), Some(col_base + c - 1))>>
              ELSE <<>>], 1, Len(e.data))

UnmatchedA(sheet_name, list_a, accepted, col_base) ==
    Concat([i \in DOMAIN list_a |->
              IF (i - 1) \notin used_a_of(accepted)
              THEN DeletedRow(sheet_name, list_a[i], col_base) ELSE <<>>],
           1, Len(list_a))

UnmatchedB(sheet_name, list_b, accepted, col_base) ==
    Concat([j \in DOMAIN list_b |->
              IF (j - 1) \notin used_b_of(accepted)
              THEN AddedRow(sheet_name, list_b[j], col_base) ELSE <<>>],
           1, Len(list_b))

\* The (row_idx_a, row_idx_b) of the accepted pairs of one key.
MatchedRows(key, list_a, list_b, accepted) ==
    {[key |-> key, row_a |-> list_a[accepted[k][2] + 1].idx,
      row_b |-> list_b[accepted[k][3] + 1].idx] : k \in DOMAIN accepted}

(***************************************************************************)
(* MainWindow._compare_with_smart_match, for one sheet present in both      *)
(* workbooks.  `order` is the order in which `for key in all_keys` visits   *)
(* the set of keys.                                                         *)
(***************************************************************************)
\* The rows the key maps are built from: every row but the header row.
SheetEntries(sheet, header_row) ==
    LET idxs == {r \in 0..(row_count(sheet) - 1) : ~OptEq(r, header_row)}
        order == SeqOfSet(idxs)
    IN  [k \in DOMAIN order |-> [idx |-> order[k], data |-> extract_row_data(sheet, order[k])]]

SheetHeaders(sheet, header_row) ==
    HeaderDict([c \in 1..col_count(sheet) |-> get_cell(sheet, Val(header_row), c - 1).value])

SheetColMap(sheet_a, sheet_b, header_row) ==
    IF IsSome(header_row)
    THEN ColMap(SheetHeaders(sheet_a, header_row), SheetHeaders(sheet_b, header_row))
    ELSE <<>>

\* The comparison of one matched row pair (lines 603-667).
SheetRowPair(sheet_name, ea, eb, col_map, k1a, k2a, k1b, k2b, options) ==
    IF col_map # <<>>
    THEN Concat([k \in DOMAIN col_map |->
                   LET col_a == col_map[k][1]
                       col_b == col_map[k][2]
                   IN  IF OptEq(col_a, k1a) \/ OptEq(col_a, k2a)
                          \/ OptEq(col_b, k1b) \/ OptEq(col_b, k2b)
                       THEN <<>>
                       ELSE CellDiff(sheet_name, ea.idx, col_a, eb.idx, col_b,
                                     ListGet(ea.data, col_a), ListGet(eb.data, col_b),
                                     options)],
                1, Len(col_map))
    ELSE LET max_cols == Max2(Len(ea.data), Len(eb.data))
         IN  Concat([c \in 1..max_cols |->
                       LET col_idx == c - 1
                       IN  IF OptEq(col_idx, k1a) \/ OptEq(col_idx, k2a)
                              \/ OptEq(col_idx, k1b) \/ OptEq(col_idx, k2b)
                           THEN <<>>
                           ELSE CellDiff(sheet_name, ea.idx, col_idx, eb.idx, col_idx,
                                         ListGet(ea.data, col_idx),
                                         ListGet(eb.data, col_idx), options)],
                    1, max_cols)

SheetAllKeys(sheet_a, sheet_b, k1a, k2a, k1b, k2b, header_row, options) ==
    KeysOf(SheetEntries(sheet_a, header_row), Val(k1a), k2a, options)
    \cup KeysOf(SheetEntries(sheet_b, header_row), Val(k1b), k2b, options)

\* The records and the accepted pairs of one key (lines 570-690).
SheetKeyResult(sheet_a, sheet_b, key, k1a, k2a, k1b, k2b, header_row, options) ==
    LET list_a == RowsOfKey(SheetEntries(sheet_a, header_row), key, Val(k1a), k2a, options)
        list_b == RowsOfKey(SheetEntries(sheet_b, header_row), key, Val(k1b), k2b, options)
        accepted == GreedyMatch(list_a, list_b)
        col_map == SheetColMap(sheet_a, sheet_b, header_row)
        matched == Concat([k \in DOMAIN accepted |->
                             SheetRowPair(sheet_a.name, list_a[accepted[k][2] + 1],
                                          list_b[accepted[k][3] + 1], col_map,
                                          k1a, k2a, k1b, k2b, options)],
                          1, Len(accepted))
    IN  [diffs |-> matched \o UnmatchedA(sheet_a.name, list_a, accepted, 0)
                           \o UnmatchedB(sheet_a.name, list_b, accepted, 0),
         matches |-> MatchedRows(key, list_a, list_b, accepted)]

\* The header-only branch (lines 691-711): rows by position, columns by the
\* header map; nothing is compared when the map is empty.
SheetHeaderOnly(sheet_a, sheet_b, header_row, options) ==
    LET max_rows == Max2(row_count(sheet_a), row_count(sheet_b))
        col_map == SheetColMap(sheet_a, sheet_b, header_row)
        RowDiffs(row_idx) ==
            LET row_data_a == IF row_idx < row_count(sheet_a)
                              THEN extract_row_data(sheet_a, row_idx) ELSE <<>>
                row_data_b == IF row_idx < row_count(sheet_b)
                              THEN extract_row_data(sheet_b, row_idx) ELSE <<>>
            IN  IF OptEq(row_idx, header_row) THEN <<>>
                ELSE Concat([k \in DOMAIN col_map |->
                               CellDiff(sheet_a.name, row_idx, col_map[k][1],
                                        row_idx, col_map[k][2],
                                        ListGet(row_data_a, col_map[k][1]),
                                        ListGet(row_data_b, col_map[k][2]), options)],
                            1, Len(col_map))
    IN  Concat([r \in 1..max_rows |-> RowDiffs(r - 1)], 1, max_rows)

_compare_with_smart_match(sheet_a, sheet_b, k1a, k2a, k1b, k2b, header_row, options, order) ==
    IF IsSome(k1a)
    THEN LET R(k) == SheetKeyResult(sheet_a, sheet_b, order[k], k1a, k2a, k1b, k2b,
                                    header_row, options)
         IN  [diffs |-> Concat([k \in DOMAIN order |-> R(k).diffs], 1, Len(order)),
              matches |-> UNION {R(k).matches : k \in DOMAIN order}]
    ELSE [diffs |-> SheetHeaderOnly(sheet_a, sheet_b, header_row, options),
          matches |-> {}]

\* The orders in which a set of keys can be visited.
Perms(S) ==
    {f \in [1..Cardinality(S) -> S] : \A i, j \in 1..Cardinality(S) : f[i] = f[j] => i = j}

(***************************************************************************)
(* MainWindow._compare_selection_smart and _compare_by_position.  A range   *)
(* is the tuple (min_row, min_col, max_row, max_col) of the selection.      *)
(***************************************************************************)
Range(r0, c0, r1, c1) == [min_row |-> r0, min_col |-> c0, max_row |-> r1, max_col |-> c1]

RangeRows(rng) == rng.max_row - rng.min_row + 1
RangeCols(rng) == rng.max_col - rng.min_col + 1

\* extract_range_data: the (row_idx, row_data) of every row of the range.
extract_range_data(sheet, rng) ==
    [i \in 1..RangeRows(rng) |->
        [idx |-> rng.min_row + i - 1,
         data |-> [j \in 1..RangeCols(rng) |->
                     get_cell(sheet, rng.min_row + i - 1, rng.min_col + j - 1).value]]]

\* The header cells read from the sheet for an external header row.
ExternalHeaders(sheet, rng, width, external_header_row) ==
    HeaderDict([j \in 1..width |->
                  get_cell(sheet, external_header_row, rng.min_col + j - 1).value])

\* Whether the header row inside the selection is used (line 1135).
InnerHeaderUsed(data_a, data_b, header_row, external_header_row) ==
    /\ ~IsSome(external_header_row)
    /\ IsSome(header_row)
    /\ Val(header_row) < Len(data_a)
    /\ Val(header_row) < Len(data_b)

SelColMap(sheet_a, sheet_b, range_a, range_b, header_row, external_header_row) ==
    LET data_a == extract_range_data(sheet_a, range_a)
        data_b == extract_range_data(sheet_b, range_b)
    IN  IF IsSome(external_header_row)
        THEN ColMap(ExternalHeaders(sheet_a, range_a, RangeCols(range_a), Val(external_header_row)),
                    ExternalHeaders(sheet_b, range_b, RangeCols(range_a), Val(external_header_row)))
        ELSE IF InnerHeaderUsed(data_a, data_b, header_row, external_header_row)
        THEN ColMap(HeaderDict(data_a[Val(header_row) + 1].data),
                    HeaderDict(data_b[Val(header_row) + 1].data))
        ELSE <<>>

data_start_offset(data_a, data_b, header_row, external_header_row) ==
    IF InnerHeaderUsed(data_a, data_b, header_row, external_header_row)
    THEN Val(header_row) + 1 ELSE 0

\* data[data_start_offset:]
DataFrom(data, offset) == SubSeq(data, offset + 1, Len(data))

\* The comparison of one matched row pair (lines 1223-1251).
SelRowPair(sheet_name, ea, eb, col_map, range_a, range_b, key_col1, key_col2, options) ==
    IF col_map # <<>>
    THEN Concat([k \in DOMAIN col_map |->
                   LET col_a == col_map[k][1]
                       col_b == col_map[k][2]
                   IN  IF OptEq(col_a, key_col1) \/ OptEq(col_a, key_col2)
                       THEN <<>>
                       ELSE CellDiff(sheet_name, ea.idx, range_a.min_col + col_a,
                                     eb.idx, range_b.min_col + col_b,
                                     ListGet(ea.data, col_a), ListGet(eb.data, col_b),
                                     options)],
                1, Len(col_map))
    ELSE LET max_cols == Max2(Len(ea.data), Len(eb.data))
         IN  Concat([c \in 1..max_cols |->
                       LET col_offset == c - 1
                       IN  IF OptEq(col_offset, key_col1) \/ OptEq(col_offset, key_col2)
                           THEN <<>>
                           ELSE CellDiff(sheet_name, ea.idx, range_a.min_col + col_offset,
                                         eb.idx, range_b.min_col + col_offset,
                                         ListGet(ea.data, col_offset),
                                         ListGet(eb.data, col_offset), options)],
                    1, max_cols)

SelEntriesA(sheet_a, sheet_b, range_a, range_b, header_row, external_header_row) ==
    LET data_a == extract_range_data(sheet_a, range_a)
        data_b == extract_range_data(sheet_b, range_b)
    IN  DataFrom(data_a, data_start_offset(data_a, data_b, header_row, external_header_row))

SelEntriesB(sheet_a, sheet_b, range_a, range_b, header_row, external_header_row) ==
    LET data_a == extract_range_data(sheet_a, range_a)
        data_b == extract_range_data(sheet_b, range_b)
    IN  DataFrom(data_b, data_start_offset(data_a, data_b, header_row, external_header_row))

SelAllKeys(sheet_a, sheet_b, range_a, range_b, key_col1, key_col2, header_row, options, external_header_row) ==
    KeysOf(SelEntriesA(sheet_a, sheet_b, range_a, range_b, header_row, external_header_row),
           Val(key_col1), key_col2, options)
    \cup KeysOf(SelEntriesB(sheet_a, sheet_b, range_a, range_b, header_row, external_header_row),
                Val(key_col1), key_col2, options)

\* The records and the accepted pairs of one key (lines 1196-1272).
SelKeyResult(sheet_a, sheet_b, key, range_a, range_b, key_col1, key_col2, header_row, options, external_header_row) ==
    LET list_a == RowsOfKey(SelEntriesA(sheet_a, sheet_b, range_a, range_b, header_row,
                                        external_header_row),
                            key, Val(key_col1), key_col2, options)
        list_b == RowsOfKey(SelEntriesB(sheet_a, sheet_b, range_a, range_b, header_row,
                                        external_header_row),
                            key, Val(key_col1), key_col2, options)
        accepted == GreedyMatch(list_a, list_b)
        col_map == SelColMap(sheet_a, sheet_b, range_a, range_b, header_row,
                             external_header_row)
        matched == Concat([k \in DOMAIN accepted |->
                             SelRowPair(sheet_a.name, list_a[accepted[k][2] + 1],
                                        list_b[accepted[k][3] + 1], col_map,
                                        range_a, range_b, key_col1, key_col2, options)],
                          1, Len(accepted))
    IN  [diffs |-> matched \o UnmatchedA(sheet_a.name, list_a, accepted, range_a.min_col)
                           \o UnmatchedB(sheet_a.name, list_b, accepted, range_b.min_col),
         matches |-> MatchedRows(key, list_a, list_b, accepted)]

\* The header-only branch (lines 1273-1289).
SelHeaderOnly(sheet_a, sheet_b, range_a, range_b, header_row, options, external_header_row) ==
    LET data_a == extract_range_data(sheet_a, range_a)
        data_b == extract_range_data(sheet_b, range_b)
        start == data_start_offset(data_a, data_b, header_row, external_header_row)
        last == Max2(Len(data_a), Len(data_b))
        col_map == SelColMap(sheet_a, sheet_b, range_a, range_b, header_row,
                             external_header_row)
        RowDiffs(i) ==
            LET ea == IF i < Len(data_a) THEN data_a[i + 1]
                      ELSE [idx |-> range_a.min_row + i, data |-> <<>>]
                eb == IF i < Len(data_b) THEN data_b[i + 1]
                      ELSE [idx |-> range_b.min_row + i, data |-> <<>>]
            IN  Concat([k \in DOMAIN col_map |->
                          CellDiff(sheet_a.name, ea.idx, range_a.min_col + col_map[k][1],
                                   eb.idx, range_b.min_col + col_map[k][2],
                                   ListGet(ea.data, col_map[k][1]),
                                   ListGet(eb.data, col_map[k][2]), options)],
                       1, Len(col_map))
    IN  Concat([i \in (start + 1)..last |-> RowDiffs(i - 1)], start + 1, last)

_compare_selection_smart(sheet_a, sheet_b, range_a, range_b, key_col1, key_col2, header_row, options, external_header_row, order) ==
    IF IsSome(key_col1)
    THEN LET R(k) == SelKeyResult(sheet_a, sheet_b, order[k], range_a, range_b,
                                  key_col1, key_col2, header_row, options,
                                  external_header_row)
         IN  [diffs |-> Concat([k \in DOMAIN order |-> R(k).diffs], 1, Len(order)),
              matches |-> UNION {R(k).matches : k \in DOMAIN order}]
    ELSE [diffs |-> SelHeaderOnly(sheet_a, sheet_b, range_a, range_b, header_row,
                                  options, external_header_row),
          matches |-> {}]

\* MainWindow._compare_by_position: the selection cell by cell.
_compare_by_position(sheet_a, sheet_b, range_a, range_b, options) ==
    LET rows == RangeRows(range_a)
        cols == RangeCols(range_a)
        RowDiffs(row_offset) ==
            Concat([c \in 1..cols |->
                      CellDiff(sheet_a.name,
                               range_a.min_row + row_offset, range_a.min_col + c - 1,
                               range_b.min_row + row_offset, range_b.min_col + c - 1,
                               get_cell(sheet_a, range_a.min_row + row_offset,
                                        range_a.min_col + c - 1).value,
                               get_cell(sheet_b, range_b.min_row + row_offset,
                                        range_b.min_col + c - 1).value,
                               options)],
                   1, cols)
    IN  Concat([r \in 1..rows |-> RowDiffs(r - 1)], 1, rows)

(***************************************************************************)
(* smart_compare_service.py: SmartCompareService                            *)
(***************************************************************************)
SmartCompareOptions(range_a, range_b, use_header_row, header_row_index, use_key_column, key_column_index, ic, iw, ier) ==
    [range_a |-> range_a, range_b |-> range_b,
     use_header_row |-> use_header_row, header_row_index |-> header_row_index,
     use_key_column |-> use_key_column, key_column_index |-> key_column_index,
     ignore_case |-> ic, ignore_whitespace |-> iw, ignore_empty_rows |-> ier]

\* _extract_range_data: the values of the range, or of the whole sheet when
\* no range is given (<<>>).
_extract_range_data(sheet, cell_range) ==
    IF cell_range = <<>>
    THEN [i \in DOMAIN sheet.rows |-> [j \in DOMAIN sheet.rows[i] |-> sheet.rows[i][j].value]]
    ELSE LET rng == cell_range[1]
         IN  [i \in 1..RangeRows(rng) |->
                [j \in 1..RangeCols(rng) |->
                    get_cell(sheet, rng.min_row + i - 1, rng.min_col + j - 1).value]]

\* The comparison values after the ignore options (e.g. lines 275-281).
SmartNorm(v, options) ==
    LET l == IF options.ignore_case THEN LowerIfStr(v) ELSE v
    IN  IF options.ignore_whitespace THEN StripIfStr(l) ELSE l

\* The classification used by all three comparisons (e.g. lines 284-288).
SmartDiffType(val_a, val_b) ==
    IF IsBlank(val_a) /\ val_b # None THEN ADDED
    ELSE IF val_a # None /\ IsBlank(val_b) THEN DELETED
    ELSE MODIFIED

\* One compared value pair of _compare_by_key (lines 271-297).
SmartCellDiff(sheet_name, row, col, val_a, val_b, options) ==
    IF ~PyEq(SmartNorm(val_a, options), SmartNorm(val_b, options))
    THEN <<DiffResult(sheet_name, row, col, SmartDiffType(val_a, val_b),
                      val_a, val_b, NoInt, NoInt)>>
    ELSE <<>>

\* One compared value pair of _compare_by_header and _compare_by_position,
\* which skip a pair of blanks under ignore_empty_rows (lines 362, 423).
SmartCellDiffSkip(sheet_name, row, col, val_a, val_b, options) ==
    IF options.ignore_empty_rows /\ IsBlank(val_a) /\ IsBlank(val_b) THEN <<>>
    ELSE SmartCellDiff(sheet_name, row, col, val_a, val_b, options)

\* Two values are the same dict key when they are == (and hash alike).
SameKey(a, b) == PyEq(a, b)

\* The rows build_key_map reads: 0-indexed positions i of data, from
\* start_row on, whose key cell exists and is not blank.
SmartKeyRows(data, key_col, start_row) ==
    {i \in start_row..(Len(data) - 1) :
        /\ Len(data[i + 1]) > key_col
        /\ ~IsBlank(ListGet(data[i + 1], key_col))}

SmartRowKey(data, i, key_col, options) == SmartNorm(ListGet(data[i + 1], key_col), options)

\* build_key_map: `key_map[key] = (i, row)` keeps, for every key, the last
\* row that has it; the dict lists the keys in the order of their first row.
build_key_map(data, key_col, start_row, options) ==
    LET rows == SmartKeyRows(data, key_col, start_row)
        K(i) == SmartRowKey(data, i, key_col, options)
        first == {i \in rows : \A j \in rows : j < i => ~SameKey(K(j), K(i))}
        Last(i) == SetMax({j \in rows : SameKey(K(j), K(i))})
        order == SeqOfSet(first)
    IN  [k \in DOMAIN order |->
            [key |-> K(order[k]), idx |-> Last(order[k]),
             data |-> data[Last(order[k]) + 1]]]

MapHas(key_map, key) == \E k \in DOMAIN key_map : SameKey(key_map[k].key, key)
MapGet(key_map, key) == key_map[CHOOSE k \in DOMAIN key_map : SameKey(key_map[k].key, key)]

\* set(map_a.keys()) | set(map_b.keys())
SmartAllKeys(map_a, map_b) ==
    {map_a[k].key : k \in DOMAIN map_a}
    \cup {map_b[k].key : k \in {j \in DOMAIN map_b : ~MapHas(map_a, map_b[j].key)}}

\* Code-point order of the characters the model uses.
Alphabet ==
    <<" ", "0", "1", "2", "3", "4", "5", "6", "7", "8", "9",
      "A", "B", "F", "J", "K", "N", "T", "X", "Y",
      "a", "b", "e", "f", "j", "k", "l", "n", "o", "r", "s", "t", "u", "x", "y", "|">>

CharCode(c) == CHOOSE i \in DOMAIN Alphabet : Alphabet[i] = c

\* Python's str <= str.
RECURSIVE StrLeq(_, _)
StrLeq(x, y) ==
    IF x = <<>> THEN TRUE
    ELSE IF y = <<>> THEN FALSE
    ELSE IF CharCode(Head(x)) < CharCode(Head(y)) THEN TRUE
    ELSE IF CharCode(Head(x)) > CharCode(Head(y)) THEN FALSE
    ELSE StrLeq(Tail(x), Tail(y))

\* The orders sorted(all_keys, key=lambda x: str(x)) can return: ascending
\* in str(key); keys with the same str keep the set's iteration order.
SortedKeyOrders(keys) ==
    {f \in Perms(keys) :
        \A i, j \in DOMAIN f : i < j => StrLeq(PyStr(f[i]), PyStr(f[j]))}

\* The records of one key of _compare_by_key (lines 237-297).
SmartKeyDiffs(sheet_name, key, map_a, map_b, options, row_offset, col_offset) ==
    IF ~MapHas(map_a, key)
    THEN LET e == MapGet(map_b, key)
         IN  Concat([c \in DOMAIN e.data |->
                       IF ~IsBlank(e.data[c])
                       THEN <<DiffResult(sheet_name, e.idx + row_offset, c - 1 + col_offset,
                                         ADDED, None, e.data[c], NoInt, NoInt)>>
                       ELSE <<>>], 1, Len(e.data))
    ELSE IF ~MapHas(map_b, key)
    THEN LET e == MapGet(map_a, key)
         IN  Concat([c \in DOMAIN e.data |->
                       IF ~IsBlank(e.data[c])
                       THEN <<DiffResult(sheet_name, e.idx + row_offset, c - 1 + col_offset,
                                         DELETED, e.data[c], None, NoInt, NoInt)>>
                       ELSE <<>>], 1, Len(e.data))
    ELSE LET ea == MapGet(map_a, key)
             eb == MapGet(map_b, key)
             max_cols == Max2(Len(ea.data), Len(eb.data))
         IN  Concat([c \in 1..max_cols |->
                       SmartCellDiff(sheet_name, ea.idx + row_offset, c - 1 + col_offset,
                                     ListGet(ea.data, c - 1), ListGet(eb.data, c - 1),
                                     options)],
                    1, max_cols)

SmartStartRow(options) ==
    IF options.use_header_row THEN options.header_row_index + 1 ELSE 0

SmartMapA(data_a, options) ==
    build_key_map(data_a, options.key_column_index, SmartStartRow(options), options)

SmartMapB(data_b, options) ==
    build_key_map(data_b, options.key_column_index, SmartStartRow(options), options)

\* SmartCompareService._compare_by_key; `order` is the sorted key list.
_compare_by_key(sheet_name, data_a, data_b, options, row_offset, col_offset, order) ==
    LET map_a == SmartMapA(data_a, options)
        map_b == SmartMapB(data_b, options)
    IN  [diffs |-> Concat([k \in DOMAIN order |->
                             SmartKeyDiffs(sheet_name, order[k], map_a, map_b, options,
                                           row_offset, col_offset)],
                          1, Len(order)),
         matches |-> {[key |-> PyStr(order[k]),
                       row_a |-> MapGet(map_a, order[k]).idx + row_offset,
                       row_b |-> MapGet(map_b, order[k]).idx + row_offset] :
                         k \in {j \in DOMAIN order : MapHas(map_a, order[j])
                                                      /\ MapHas(map_b, order[j])}}]

\* build_header_map: str(h), lower-cased and stripped as the options say; one
\* entry per name, holding the name's last column.
build_header_map(headers, options) ==
    LET named == {i \in DOMAIN headers : ~IsBlank(headers[i])}
        K(i) == LET k0 == PyStr(headers[i])
                    k1 == IF options.ignore_case THEN lower(k0) ELSE k0
                IN  IF options.ignore_whitespace THEN strip(k1) ELSE k1
        first == {i \in named : \A j \in named : j < i => K(j) # K(i)}
        order == SeqOfSet(first)
    IN  [k \in DOMAIN order |->
            [key |-> K(order[k]),
             col |-> SetMax({j \in named : K(j) = K(order[k])}) - 1]]

HeaderNames(header_map) == {header_map[k].key : k \in DOMAIN header_map}
HeaderCol(header_map, name) ==
    header_map[CHOOSE k \in DOMAIN header_map : header_map[k].key = name].col

\* Whether _compare_by_header raises ValueError (lines 320-321).
HeaderRowOutOfRange(data_a, data_b, options) ==
    options.header_row_index >= Len(data_a) \/ options.header_row_index >= Len(data_b)

SmartCommonHeaders(data_a, data_b, options) ==
    HeaderNames(build_header_map(data_a[options.header_row_index + 1], options))
    \cap HeaderNames(build_header_map(data_b[options.header_row_index + 1], options))

\* SmartCompareService._compare_by_header; `order` is the order in which
\* `for header in common_headers` visits the set.
_compare_by_header(sheet_name, data_a, data_b, options, row_offset, col_offset, order) ==
    LET header_row == options.header_row_index
        map_a == build_header_map(data_a[header_row + 1], options)
        map_b == build_header_map(data_b[header_row + 1], options)
        data_start == header_row + 1
        max_rows == Max2(Len(data_a), Len(data_b)) - data_start
        ColDiffs(header) ==
            LET col_a == HeaderCol(map_a, header)
                col_b == HeaderCol(map_b, header)
            IN  Concat([r \in 1..max_rows |->
                          LET row_idx == data_start + r - 1
                              val_a == IF row_idx < Len(data_a)
                                       THEN ListGet(data_a[row_idx + 1], col_a) ELSE None
                              val_b == IF row_idx < Len(data_b)
                                       THEN ListGet(data_b[row_idx + 1], col_b) ELSE None
                          IN  SmartCellDiffSkip(sheet_name, row_idx + row_offset,
                                                col_a + col_offset, val_a, val_b, options)],
                       1, max_rows)
    IN  Concat([k \in DOMAIN order |-> ColDiffs(order[k])], 1, Len(order))

MaxRowLen(data) == IF data = <<>> THEN 0 ELSE SetMax({Len(data[i]) : i \in DOMAIN data})

\* SmartCompareService._compare_by_position.
smart_compare_by_position(sheet_name, data_a, data_b, options, row_offset, col_offset) ==
    LET max_rows == Max2(Len(data_a), Len(data_b))
        max_cols == Max2(MaxRowLen(data_a), MaxRowLen(data_b))
        RowDiffs(row_idx) ==
            LET row_a == IF row_idx < Len(data_a) THEN data_a[row_idx + 1] ELSE <<>>
                row_b == IF row_idx < Len(data_b) THEN data_b[row_idx + 1] ELSE <<>>
            IN  Concat([c \in 1..max_cols |->
                          SmartCellDiffSkip(sheet_name, row_idx + row_offset,
                                            c - 1 + col_offset,
                                            ListGet(row_a, c - 1), ListGet(row_b, c - 1),
                                            options)],
                       1, max_cols)
    IN  Concat([r \in 1..max_rows |-> RowDiffs(r - 1)], 1, max_rows)

(***************************************************************************)
(* The handlers.  A handler reads the two loaded sheets and its arguments   *)
(* only, and overwrites the stored result: a behaviour of the model holds   *)
(* one comparison of the loaded pair, from the state the load left.         *)
(***************************************************************************)
NoRange == Range(0, 0, 0, 0)

Call(op, options, k1a, k2a, k1b, k2b, header_row, range_a, range_b) ==
    [op |-> op, options |-> options,
     key_col1_a |-> k1a, key_col2_a |-> k2a, key_col1_b |-> k1b, key_col2_b |-> k2b,
     header_row |-> header_row, range_a |-> range_a, range_b |-> range_b]

NoCall == Call("none", CompareOptions(FALSE, FALSE, FALSE, TRUE),
               NoInt, NoInt, NoInt, NoInt, NoInt, NoRange, NoRange)

Idle == call.op = "none"

\* `self._compare_result = result; self._current_diff_index = 0 if result.diffs else -1`
Store(r) ==
    /\ compare_result' = CompareResult(r.diffs, r.matches)
    /\ current_diff_index' = IF r.diffs # <<>> THEN 0 ELSE -1

\* _start_compare without key column and header row: CompareService.compare
\* in EXACT mode on the sheet both workbooks hold.
DoCompareExact(options) ==
    /\ Store([diffs |-> _compare_exact(workbook_a, workbook_b, options), matches |-> {}])
    /\ call' = Call("exact", options, NoInt, NoInt, NoInt, NoInt, NoInt, NoRange, NoRange)
    /\ UNCHANGED <<workbook_a, workbook_b>>

\* The one comparison of a behaviour that compares once.
StartCompareExact(options) == Idle /\ DoCompareExact(options)

\* _start_compare with a key column or a header row configured.
StartCompareSmartMatch(options, k1a, k2a, k1b, k2b, header_row) ==
    /\ Idle
    /\ IsSome(k1a) \/ IsSome(header_row)
    /\ \E order \in Perms(IF IsSome(k1a)
                          THEN SheetAllKeys(workbook_a, workbook_b, k1a, k2a, k1b, k2b,
                                            header_row, options)
                          ELSE {}) :
          Store(_compare_with_smart_match(workbook_a, workbook_b, k1a, k2a, k1b, k2b,
                                          header_row, options, order))
    /\ call' = Call("smart_match", options, k1a, k2a, k1b, k2b, header_row, NoRange, NoRange)
    /\ UNCHANGED <<workbook_a, workbook_b>>

\* A faulty variant: the column spans are not compared.
SelectionRejected_NoColumnTest(range_a, range_b, k1a) ==
    \/ IsSome(k1a) /\ (Val(k1a) - range_a.min_col < 0
                       \/ Val(k1a) - range_a.min_col >= RangeCols(range_a))
    \/ ~IsSome(k1a) /\ RangeRows(range_a) # RangeRows(range_b)

\* The early returns of _compare_selection (lines 955-1000): unequal column
\* spans, a key column outside the selection, unequal row spans without a key.
SelectionRejected(range_a, range_b, k1a) ==
    \/ RangeCols(range_a) # RangeCols(range_b)
    \/ IsSome(k1a) /\ (Val(k1a) - range_a.min_col < 0
                       \/ Val(k1a) - range_a.min_col >= RangeCols(range_a))
    \/ ~IsSome(k1a) /\ RangeRows(range_a) # RangeRows(range_b)

\* _compare_selection, accepted: the key columns become offsets into the
\* selection, a header row outside the selection is read from the sheet.
DoCompareSelection(options, range_a, range_b, k1a, k2a, k1b, k2b, header_row_abs) ==
    /\ ~SelectionRejected(range_a, range_b, k1a)
    /\ LET key_col1 == IF IsSome(k1a) THEN Some(Val(k1a) - range_a.min_col) ELSE NoInt
           key_col2 == IF IsSome(k2a) THEN Some(Val(k2a) - range_a.min_col) ELSE NoInt
           external == IsSome(header_row_abs)
                       /\ (Val(header_row_abs) < range_a.min_row
                           \/ Val(header_row_abs) > range_a.max_row)
           header_row == IF IsSome(header_row_abs) /\ ~external
                         THEN Some(Val(header_row_abs) - range_a.min_row) ELSE NoInt
           external_header_row == IF external THEN header_row_abs ELSE NoInt
       IN  IF IsSome(key_col1) \/ IsSome(header_row) \/ external
           THEN \E order \in Perms(IF IsSome(key_col1)
                                   THEN SelAllKeys(workbook_a, workbook_b, range_a, range_b,
                                                   key_col1, key_col2, header_row, options,
                                                   external_header_row)
                                   ELSE {}) :
                   Store(_compare_selection_smart(workbook_a, workbook_b, range_a, range_b,
                                                  key_col1, key_col2, header_row, options,
                                                  external_header_row, order))
           ELSE Store([diffs |-> _compare_by_position(workbook_a, workbook_b,
                                                      range_a, range_b, options),
                       matches |-> {}])
    /\ call' = Call("selection", options, k1a, k2a, k1b, k2b, header_row_abs, range_a, range_b)
    /\ UNCHANGED <<workbook_a, workbook_b>>

\* The one comparison of a behaviour that compares once.
CompareSelection(options, range_a, range_b, k1a, k2a, k1b, k2b, header_row_abs) ==
    Idle /\ DoCompareSelection(options, range_a, range_b, k1a, k2a, k1b, k2b, header_row_abs)

\* _compare_selection, rejected: a warning and a return; the stored result
\* and the diff index are those of the comparison before, if there was one.
\* `call` keeps the rejected selections.
CompareSelectionRejected(range_a, range_b, k1a) ==
    /\ SelectionRejected(range_a, range_b, k1a)
    /\ call' = Call("rejected", call.options, k1a, NoInt, k1a, NoInt, NoInt, range_a, range_b)
    /\ UNCHANGED <<workbook_a, workbook_b, compare_result, current_diff_index>>

\* _start_smart_compare: SmartCompareService.compare_with_range on the one
\* range given for both files.  The key branch is taken first, then the
\* header branch, then the positional one (lines 135-152); a ValueError of
\* the header branch is caught by the handler and nothing is stored.
DoSmartCompare(options, cell_range, use_header, use_key, key_column_index) ==
    /\ LET so == SmartCompareOptions(cell_range, cell_range, use_header, 0, use_key,
                                     key_column_index, options.ignore_case,
                                     options.ignore_whitespace, options.ignore_empty_rows)
           data_a == _extract_range_data(workbook_a, cell_range)
           data_b == _extract_range_data(workbook_b, cell_range)
           row_offset == IF cell_range = <<>> THEN 0 ELSE cell_range[1].min_row
           col_offset == IF cell_range = <<>> THEN 0 ELSE cell_range[1].min_col
           rng == IF cell_range = <<>> THEN NoRange ELSE cell_range[1]
           key == IF use_key THEN Some(key_column_index) ELSE NoInt
           hdr == IF use_header THEN Some(0) ELSE NoInt
       IN  IF use_key
           THEN /\ \E order \in SortedKeyOrders(SmartAllKeys(SmartMapA(data_a, so),
                                                             SmartMapB(data_b, so))) :
                      Store(_compare_by_key(workbook_a.name, data_a, data_b, so,
                                            row_offset, col_offset, order))
                /\ call' = Call("smart_key", options, key, NoInt, key, NoInt, hdr, rng, rng)
                /\ UNCHANGED <<workbook_a, workbook_b>>
           ELSE IF use_header /\ HeaderRowOutOfRange(data_a, data_b, so)
           THEN UNCHANGED vars
           ELSE IF use_header
           THEN /\ \E order \in Perms(SmartCommonHeaders(data_a, data_b, so)) :
                      Store([diffs |-> _compare_by_header(workbook_a.name, data_a, data_b, so,
                                                          row_offset, col_offset, order),
                             matches |-> {}])
                /\ call' = Call("smart_header", options, key, NoInt, key, NoInt, hdr, rng, rng)
                /\ UNCHANGED <<workbook_a, workbook_b>>
           ELSE /\ Store([diffs |-> smart_compare_by_position(workbook_a.name, data_a, data_b,
                                                              so, row_offset, col_offset),
                          matches |-> {}])
                /\ call' = Call("smart_position", options, key, NoInt, key, NoInt, hdr, rng, rng)
                /\ UNCHANGED <<workbook_a, workbook_b>>

\* The one comparison of a behaviour that compares once.
StartSmartCompare(options, cell_range, use_header, use_key, key_column_index) ==
    Idle /\ DoSmartCompare(options, cell_range, use_header, use_key, key_column_index)

(***************************************************************************)
(* The loaded sheets.  Both workbooks hold one sheet, "S".                  *)
(***************************************************************************)
\* The sheets of 1..max_rows rows, every row drawn from `pool` (rows of one
\* width, as the loader builds them).
SheetsOf(pool, max_rows) ==
    {SheetData("S", [i \in DOMAIN rws |-> [j \in DOMAIN rws[i] |-> Cell(rws[i][j])]]) :
        rws \in UNION {[1..n -> pool] : n \in 1..max_rows}}

Loaded(sheets_a, sheets_b) ==
    /\ workbook_a \in sheets_a
    /\ workbook_b \in sheets_b
    /\ call = NoCall
    /\ compare_result = NoResult
    /\ current_diff_index = -1

\* The selections that span every column and run from a row to the last row.
TailRanges(sheet) ==
    {Range(r0, 0, row_count(sheet) - 1, col_count(sheet) - 1) : r0 \in 0..(row_count(sheet) - 1)}

(***************************************************************************)
(* Spec: key-based comparison of two sheets with a key column (column 0)    *)
(* and a data column.                                                       *)
(***************************************************************************)
MaxRowsA == 3
MaxRowsB == 2

\* Rows of file A: a keyed row, and rows whose key cell is None or blanks.
KeyRowsA ==
    {<<Str(<<"k">>), Str(<<"x">>)>>,
     <<None, Str(<<"x">>)>>,
     <<Str(<<" ">>), Str(<<"y">>)>>}

\* Rows of file B: keyed rows that differ in case and data, and a row whose
\* key cell is the empty text (what the .xls loader yields for an empty cell).
KeyRowsB ==
    {<<Str(<<"k">>), Str(<<"x">>)>>,
     <<Str(<<"K">>), Str(<<" ">>)>>,
     <<EmptyStr, Str(<<"x">>)>>}

CaseOptions == {CompareOptions(ic, FALSE, FALSE, TRUE) : ic \in BOOLEAN}
TextOptions == {CompareOptions(ic, iw, FALSE, TRUE) : ic \in BOOLEAN, iw \in BOOLEAN}

Init == Loaded(SheetsOf(KeyRowsA, MaxRowsA), SheetsOf(KeyRowsB, MaxRowsB))

Next ==
    \/ \E o \in CaseOptions :
          StartCompareSmartMatch(o, Some(0), NoInt, Some(0), NoInt, NoInt)
    \/ \E o \in CaseOptions, ra \in TailRanges(workbook_a), rb \in TailRanges(workbook_b) :
          CompareSelection(o, ra, rb, Some(0), NoInt, Some(0), NoInt, NoInt)
    \/ \E o \in TextOptions : StartSmartCompare(o, <<>>, FALSE, TRUE, 0)

Spec == Init /\ [][Next]_vars

(***************************************************************************)
(* What a stored key-based result says about the rows of the two sheets.   *)
(***************************************************************************)
Diffs == compare_result.diffs
Matches == compare_result.matches

\* The result was produced by a key-based comparison.
KeyBased == call.op \in {"smart_match", "selection", "smart_key"} /\ IsSome(call.key_col1_a)

\* The result was produced by one of the two handlers that pair rows greedily.
GreedyKeyed == call.op \in {"smart_match", "selection"} /\ IsSome(call.key_col1_a)

\* The rows and columns of each sheet that the comparison reads.
ComparedRowsA ==
    IF call.op = "selection" THEN call.range_a.min_row..call.range_a.max_row
    ELSE {r \in 0..(row_count(workbook_a) - 1) : ~OptEq(r, call.header_row)}

ComparedRowsB ==
    IF call.op = "selection" THEN call.range_b.min_row..call.range_b.max_row
    ELSE {r \in 0..(row_count(workbook_b) - 1) : ~OptEq(r, call.header_row)}

ComparedColsA ==
    IF call.op = "selection" THEN call.range_a.min_col..call.range_a.max_col
    ELSE 0..(col_count(workbook_a) - 1)

ComparedColsB ==
    IF call.op = "selection" THEN call.range_b.min_col..call.range_b.max_col
    ELSE 0..(col_count(workbook_b) - 1)

\* The absolute column of the first key column in each sheet: the selection
\* handler applies A's key offset to both selections.
KeyColA == Val(call.key_col1_a)
KeyColB ==
    IF call.op = "selection"
    THEN call.range_b.min_col + Val(call.key_col1_a) - call.range_a.min_col
    ELSE Val(call.key_col1_b)

ValueA(r, c) == get_cell(workbook_a, r, c).value
ValueB(r, c) == get_cell(workbook_b, r, c).value

\* The second key column of B, absolute, as the handler reads it.
KeyCol2B ==
    IF call.op = "selection"
    THEN (IF IsSome(call.key_col2_a)
          THEN Some(call.range_b.min_col + Val(call.key_col2_a) - call.range_a.min_col)
          ELSE NoInt)
    ELSE call.key_col2_b

\* The key text of a row, as the greedy handlers compute it.
KeyOfA(r) == make_key(extract_row_data(workbook_a, r), KeyColA, call.key_col2_a, call.options)
KeyOfB(r) == make_key(extract_row_data(workbook_b, r), KeyColB, KeyCol2B, call.options)

ListA(key) == {r \in ComparedRowsA : KeyOfA(r) = key}
ListB(key) == {r \in ComparedRowsB : KeyOfB(r) = key}
AllKeys == ({KeyOfA(r) : r \in ComparedRowsA} \cup {KeyOfB(r) : r \in ComparedRowsB}) \ {<<>>}
MatchesOf(key) == {m \in Matches : m.key = key}

\* The rows whose first key cell holds text.
KeyedRowsA == {r \in ComparedRowsA : HasText(ValueA(r, KeyColA))}
KeyedRowsB == {r \in ComparedRowsB : HasText(ValueB(r, KeyColB))}
UnmatchedRowsA == {r \in KeyedRowsA : \A m \in Matches : m.row_a # r}
UnmatchedRowsB == {r \in KeyedRowsB : \A m \in Matches : m.row_b # r}

\* The records of a kind at a coordinate.  A record of the handlers names its
\* B row; a record of SmartCompareService names one row only, so an Added
\* record at row r is the B row's only when no pair has r as its A row.
DeletedAt(r, c) ==
    {k \in DOMAIN Diffs : Diffs[k].diff_type = DELETED /\ Diffs[k].row = r /\ Diffs[k].col = c}
AddedAt(r, c) ==
    {k \in DOMAIN Diffs :
        /\ Diffs[k].diff_type = ADDED /\ Diffs[k].row = r /\ Diffs[k].col = c
        /\ call.op = "smart_key" \/ Diffs[k].row_b = Some(r)}
ModifiedOfA(r) == {k \in DOMAIN Diffs : Diffs[k].diff_type = MODIFIED /\ Diffs[k].row = r}
ModifiedOfB(r) ==
    {k \in DOMAIN Diffs : Diffs[k].diff_type = MODIFIED /\ Diffs[k].row_b = Some(r)}
AttributableB(r) == call.op # "smart_key" \/ \A m \in Matches : m.row_a # r

\* C5: for every key, with m rows in A and n rows in B, no row occurs in two
\* accepted pairs, exactly min(m, n) pairs are accepted, and m - min(m, n)
\* rows of A and n - min(m, n) rows of B are left unmatched.
C5_GreedyOneToOneMaximum ==
    GreedyKeyed =>
        /\ \A m \in Matches : m.key \in AllKeys
        /\ \A key \in AllKeys :
              LET M == MatchesOf(key)
                  La == ListA(key)
                  Lb == ListB(key)
                  size == Min2(Cardinality(La), Cardinality(Lb))
              IN  /\ \A m \in M : m.row_a \in La /\ m.row_b \in Lb
                  /\ \A m1, m2 \in M :
                        (m1.row_a = m2.row_a \/ m1.row_b = m2.row_b) => m1 = m2
                  /\ Cardinality(M) = size
                  /\ Cardinality(La \ {m.row_a : m \in M}) = Cardinality(La) - size
                  /\ Cardinality(Lb \ {m.row_b : m \in M}) = Cardinality(Lb) - size

\* C5 witness: a key with three rows in A and two in B, two pairs accepted.
C5_Witness ==
    /\ GreedyKeyed
    /\ \E key \in AllKeys :
          /\ Cardinality(ListA(key)) = 3
          /\ Cardinality(ListB(key)) = 2
          /\ Cardinality(MatchesOf(key)) = 2

\* C6: for every key with rows on both sides, a pair of minimum row distance
\* is accepted; when B has one row of the key it is paired with an A row
\* closest to it and the other A rows of the key are unmatched.
C6_NearestPairFirst ==
    GreedyKeyed =>
        \A key \in AllKeys :
            LET M == MatchesOf(key)
                La == ListA(key)
                Lb == ListB(key)
                least == SetMin({Abs(a - b) : a \in La, b \in Lb})
            IN  (La # {} /\ Lb # {}) =>
                    /\ \E m \in M : Abs(m.row_a - m.row_b) = least
                    /\ Cardinality(Lb) = 1 =>
                          /\ Cardinality(M) = 1
                          /\ \A m \in M : Abs(m.row_a - m.row_b) = least
                          /\ \A a \in La : (\A m \in M : m.row_a # a) => a \in UnmatchedRowsA

\* C6 witness: B's single row of a key is paired with an A row that is not
\* the first A row of the key, which is left unmatched.
C6_Witness ==
    /\ GreedyKeyed
    /\ \E key \in AllKeys :
          /\ Cardinality(ListA(key)) >= 2
          /\ Cardinality(ListB(key)) = 1
          /\ \E m \in MatchesOf(key) : m.row_a # SetMin(ListA(key))
          /\ SetMin(ListA(key)) \in UnmatchedRowsA

\* C7: in a key-based comparison an unmatched row of A has exactly one
\* Deleted record for each non-empty cell (not None, not "") and none for an
\* empty cell, an unmatched row of B exactly one Added record for each
\* non-empty cell, and an unmatched row has no Modified record.
C7_UnmatchedRowsReportedWhole ==
    KeyBased =>
        /\ \A r \in UnmatchedRowsA :
              /\ \A c \in ComparedColsA :
                    Cardinality(DeletedAt(r, c)) = IF IsBlank(ValueA(r, c)) THEN 0 ELSE 1
              /\ ModifiedOfA(r) = {}
        /\ \A r \in UnmatchedRowsB :
              AttributableB(r) =>
                  /\ \A c \in ComparedColsB :
                        Cardinality(AddedAt(r, c)) = IF IsBlank(ValueB(r, c)) THEN 0 ELSE 1
                  /\ call.op # "smart_key" => ModifiedOfB(r) = {}

\* C8: in every key-based path a row whose key cell holds text is in exactly
\* one pair, or in none and reported cell by cell as Deleted (A) or Added (B).
C8_DuplicateKeysRetained ==
    KeyBased =>
        /\ \A r \in KeyedRowsA :
              \/ Cardinality({m \in Matches : m.row_a = r}) = 1
              \/ /\ r \in UnmatchedRowsA
                 /\ \A c \in ComparedColsA : HasText(ValueA(r, c)) => DeletedAt(r, c) # {}
        /\ \A r \in KeyedRowsB :
              \/ Cardinality({m \in Matches : m.row_b = r}) = 1
              \/ /\ r \in UnmatchedRowsB
                 /\ \A c \in ComparedColsB :
                       (AttributableB(r) /\ HasText(ValueB(r, c))) => AddedAt(r, c) # {}

\* C9: in a key-based comparison a row whose key cell is None, "" or
\* whitespace only is in no pair and has no Modified, Added or Deleted record.
C9_EmptyKeyRowsExcluded ==
    KeyBased =>
        /\ \A r \in ComparedRowsA \ KeyedRowsA :
              /\ \A m \in Matches : m.row_a # r
              /\ \A c \in ComparedColsA : DeletedAt(r, c) = {}
              /\ ModifiedOfA(r) = {}
        /\ \A r \in ComparedRowsB \ KeyedRowsB :
              /\ \A m \in Matches : m.row_b # r
              /\ AttributableB(r) => \A c \in ComparedColsB : AddedAt(r, c) = {}
              /\ call.op # "smart_key" => ModifiedOfB(r) = {}

(***************************************************************************)
(* SpecExact: CompareService EXACT on two sheets of any small shape.        *)
(***************************************************************************)
MaxCells == 2

ExactValues == {None, Str(<<" ">>), Str(<<"x">>), Str(<<"X">>)}

AllOptions ==
    {CompareOptions(ic, iw, ier, TRUE) : ic \in BOOLEAN, iw \in BOOLEAN, ier \in BOOLEAN}

\* The rectangular sheets of at most MaxCells cells.
ExactShapes == {sh \in (1..MaxCells) \X (1..MaxCells) : sh[1] * sh[2] <= MaxCells}

ExactSheets ==
    UNION {{SheetData("S", [i \in 1..sh[1] |-> [j \in 1..sh[2] |-> Cell(g[i][j])]]) :
               g \in [1..sh[1] -> [1..sh[2] -> ExactValues]]} : sh \in ExactShapes}

InitExact == Loaded(ExactSheets, ExactSheets)

NextExact == \E o \in AllOptions : StartCompareExact(o)

SpecExact == InitExact /\ [][NextExact]_vars

Coord(d) == <<d.sheet, d.row, d.col>>

SwapKind(t) == IF t = ADDED THEN DELETED ELSE IF t = DELETED THEN ADDED ELSE t

\* C2: with ignore_format the positional diffs of (A, B) and of (B, A) have
\* the same coordinates; Added and Deleted are exchanged, and a Modified
\* coordinate is Modified in both with old_value and new_value exchanged.
C2_ExactSymmetry ==
    call.op = "exact" =>
        LET D == Diffs
            R == _compare_exact(workbook_b, workbook_a, call.options)
        IN  /\ Len(D) = Len(R)
            /\ {Coord(D[k]) : k \in DOMAIN D} = {Coord(R[k]) : k \in DOMAIN R}
            /\ \A k \in DOMAIN D : \A j \in DOMAIN R :
                  Coord(R[j]) = Coord(D[k]) =>
                      /\ R[j].diff_type = SwapKind(D[k].diff_type)
                      /\ R[j].old_value = D[k].new_value
                      /\ R[j].new_value = D[k].old_value

\* C2 witness: a result that holds an Added and a Modified record.
C2_Witness ==
    /\ call.op = "exact"
    /\ \E k \in DOMAIN Diffs : Diffs[k].diff_type = ADDED
    /\ \E k \in DOMAIN Diffs : Diffs[k].diff_type = MODIFIED

(***************************************************************************)
(* SpecRefl: every comparison of a sheet with itself.                       *)
(***************************************************************************)
MaxReflRows == 3

ReflRows ==
    {<<Str(<<"k">>), Str(<<"X">>)>>,
     <<Str(<<"K">>), Str(<<" ">>)>>,
     <<None, Num(0)>>,
     <<Str(<<"k">>), EmptyStr>>}

InitRefl ==
    /\ workbook_a \in SheetsOf(ReflRows, MaxReflRows)
    /\ workbook_b = workbook_a
    /\ call = NoCall
    /\ compare_result = NoResult
    /\ current_diff_index = -1

NextRefl ==
    \/ \E o \in AllOptions : StartCompareExact(o)
    \/ \E o \in AllOptions, k2 \in {NoInt, Some(1)}, h \in {NoInt, Some(0)} :
          StartCompareSmartMatch(o, Some(0), k2, Some(0), k2, h)
    \/ \E o \in AllOptions : StartCompareSmartMatch(o, NoInt, NoInt, NoInt, NoInt, Some(0))
    \/ \E o \in AllOptions, r \in TailRanges(workbook_a), k \in {NoInt, Some(0)} :
          CompareSelection(o, r, r, k, NoInt, k, NoInt, NoInt)
    \/ \E o \in AllOptions, use_header \in BOOLEAN, use_key \in BOOLEAN :
          StartSmartCompare(o, <<>>, use_header, use_key, 0)

SpecRefl == InitRefl /\ [][NextRefl]_vars

\* C1: with ignore_format, comparing a sheet with itself stores an empty
\* diff list under every setting of the other options, by position and by
\* key; every accepted pair pairs a row with itself.
C1_Reflexivity ==
    (call.op # "none" /\ workbook_a = workbook_b) =>
        /\ Diffs = <<>>
        /\ current_diff_index = -1
        /\ \A m \in Matches : m.row_a = m.row_b

\* C1 witness: a key-based comparison of a sheet in which three rows share
\* a key, each paired with itself.
C1_Witness ==
    /\ call.op = "smart_match"
    /\ IsSome(call.key_col1_a)
    /\ workbook_a = workbook_b
    /\ \E key \in AllKeys :
          /\ Cardinality(ListA(key)) = 3
          /\ Cardinality(MatchesOf(key)) = 3
    /\ Diffs = <<>>

(***************************************************************************)
(* SpecCells: one aligned pair of cells, compared on every path.  Both      *)
(* sheets hold a header row (n, v) and one data row (k, value).             *)
(***************************************************************************)
CellValues ==
    {None, EmptyStr, Str(<<"x">>), Str(<<"X">>), Num(0), Num(1), Bool(FALSE)}

CellSheets ==
    {SheetData("S", <<<<Cell(Str(<<"n">>)), Cell(Str(<<"v">>))>>,
                      <<Cell(Str(<<"k">>)), Cell(v)>>>>) : v \in CellValues}

WholeRange(sheet) == Range(0, 0, row_count(sheet) - 1, col_count(sheet) - 1)

InitCells == Loaded(CellSheets, CellSheets)

NextCells ==
    \/ \E o \in AllOptions : StartCompareExact(o)
    \/ \E o \in AllOptions, h \in {NoInt, Some(0)} :
          StartCompareSmartMatch(o, Some(0), NoInt, Some(0), NoInt, h)
    \/ \E o \in AllOptions : StartCompareSmartMatch(o, NoInt, NoInt, NoInt, NoInt, Some(0))
    \/ \E o \in AllOptions, k \in {NoInt, Some(0)}, h \in {NoInt, Some(0)} :
          CompareSelection(o, WholeRange(workbook_a), WholeRange(workbook_b),
                           k, NoInt, k, NoInt, h)
    \/ \E o \in AllOptions, use_header \in BOOLEAN, use_key \in BOOLEAN :
          StartSmartCompare(o, <<>>, use_header, use_key, 0)

SpecCells == InitCells /\ [][NextCells]_vars

\* The records stored for the aligned pair of data cells, at row 1, column 1.
PairRecords == {k \in DOMAIN Diffs : Diffs[k].row = 1 /\ Diffs[k].col = 1}

\* C3: on every path and under every option setting, an aligned pair whose
\* two values are both None or "" produces no record.
C3_NoDiffForTwoEmptyCells ==
    (call.op # "none" /\ IsBlank(ValueA(1, 1)) /\ IsBlank(ValueB(1, 1))) =>
        PairRecords = {}

\* C4: a pair reported as different is Added exactly when only the A side is
\* empty (None or ""), Deleted exactly when only the B side is empty, and
\* Modified exactly when neither is; 0 and false are not empty.
C4_ThreeWayClassification ==
    call.op # "none" =>
        \A k \in PairRecords :
            LET empty_a == IsBlank(ValueA(1, 1))
                empty_b == IsBlank(ValueB(1, 1))
                kind == Diffs[k].diff_type
            IN  ~(empty_a /\ empty_b) =>
                    /\ kind = ADDED <=> (empty_a /\ ~empty_b)
                    /\ kind = DELETED <=> (~empty_a /\ empty_b)
                    /\ kind = MODIFIED <=> (~empty_a /\ ~empty_b)

(***************************************************************************)
(* SpecHeader: key-based comparison of sheets with a header row, whose      *)
(* columns file B may hold in the other order.                              *)
(***************************************************************************)
MaxDataRows == 2

HeaderRowsA == {<<Str(<<"n">>), Str(<<"v">>)>>}
HeaderRowsB == {<<Str(<<"n">>), Str(<<"v">>)>>, <<Str(<<"v">>), Str(<<"n">>)>>}

DataRows ==
    {<<Str(<<"k">>), Str(<<"x">>)>>,
     <<Str(<<"k">>), Str(<<"y">>)>>,
     <<Str(<<"x">>), Str(<<"k">>)>>}

\* The sheets made of one header row and 1..max_rows data rows.
HeadedSheets(headers, pool, max_rows) ==
    {SheetData("S", <<[j \in DOMAIN h |-> Cell(h[j])]>> \o d.rows) :
        h \in headers, d \in SheetsOf(pool, max_rows)}

InitHeader ==
    Loaded(HeadedSheets(HeaderRowsA, DataRows, MaxDataRows),
           HeadedSheets(HeaderRowsB, DataRows, MaxDataRows))

NextHeader ==
    \/ \E o \in CaseOptions, kb \in {Some(0), Some(1)}, h \in {NoInt, Some(0)} :
          StartCompareSmartMatch(o, Some(0), NoInt, kb, NoInt, h)
    \/ \E o \in CaseOptions, h \in {NoInt, Some(0)} :
          CompareSelection(o, WholeRange(workbook_a), WholeRange(workbook_b),
                           Some(0), NoInt, Some(0), NoInt, h)

SpecHeader == InitHeader /\ [][NextHeader]_vars

\* The configured key columns of each file.
KeyColsA ==
    (IF IsSome(call.key_col1_a) THEN {Val(call.key_col1_a)} ELSE {})
    \cup (IF IsSome(call.key_col2_a) THEN {Val(call.key_col2_a)} ELSE {})
KeyColsB ==
    (IF IsSome(call.key_col1_b) THEN {Val(call.key_col1_b)} ELSE {})
    \cup (IF IsSome(call.key_col2_b) THEN {Val(call.key_col2_b)} ELSE {})

\* The records produced from the cell pairs of matched row pairs.
MatchedPairRecords ==
    {k \in DOMAIN Diffs :
        \E m \in Matches : Diffs[k].row = m.row_a /\ Diffs[k].row_b = Some(m.row_b)}

\* C10: no record of a matched row pair comes from a cell pair whose A
\* column is a key column of A or whose B column is a key column of B, with
\* and without a header row, in the whole-sheet and the selection handler.
C10_KeyColumnsNeverCompared ==
    GreedyKeyed =>
        \A k \in MatchedPairRecords :
            /\ Diffs[k].col \notin KeyColsA
            /\ Val(Diffs[k].col_b) \notin KeyColsB

(***************************************************************************)
(* The order of the records of a key-based result (Spec).                   *)
(***************************************************************************)
\* The key of the row a record of the greedy handlers was produced from.
RecordKey(d) ==
    IF d.diff_type = ADDED THEN KeyOfB(Val(d.row_b)) ELSE KeyOfA(d.row)

\* C11: in a key-based result of the whole-sheet and the selection handler
\* the records are in ascending order of their keys' text: a record of a
\* smaller key never follows a record of a larger key.
C11_KeysInAscendingOrder ==
    (GreedyKeyed /\ compare_result.set) =>
        \A i, j \in DOMAIN Diffs :
            i < j => StrLeq(RecordKey(Diffs[i]), RecordKey(Diffs[j]))

(***************************************************************************)
(* SpecNames: sheets of three named columns (a key column and two data      *)
(* columns) compared by every handler that reads a header row, with and     *)
(* without a key column.                                                    *)
(***************************************************************************)
NameRowsA == {<<Str(<<"K">>), Str(<<"N">>), Str(<<"M">>)>>}

\* Header rows of file B: the same names, the same names in another case and
\* with a leading blank, the data columns swapped, other names, no names.
NameRowsB ==
    {<<Str(<<"K">>), Str(<<"N">>), Str(<<"M">>)>>,
     <<Str(<<"k">>), Str(<<" ", "n">>), Str(<<"M">>)>>,
     <<Str(<<"K">>), Str(<<"M">>), Str(<<"N">>)>>,
     <<Str(<<"a">>), Str(<<"b">>), Str(<<"e">>)>>,
     <<None, None, None>>}

NameDataRows ==
    {<<Str(<<"k">>), Str(<<"x">>), Str(<<"y">>)>>,
     <<Str(<<"j">>), Str(<<"y">>), Str(<<"x">>)>>}

\* The header row the user typed: the first row, or a row below both sheets.
NameHeaderRows == {Some(0), Some(MaxDataRows + 1)}

InitNames ==
    Loaded(HeadedSheets(NameRowsA, NameDataRows, MaxDataRows),
           HeadedSheets(NameRowsB, NameDataRows, MaxDataRows))

NextNames ==
    \/ \E o \in TextOptions, h \in NameHeaderRows :
          StartCompareSmartMatch(o, NoInt, NoInt, NoInt, NoInt, h)
    \/ \E o \in TextOptions, h \in NameHeaderRows :
          StartCompareSmartMatch(o, Some(0), NoInt, Some(0), NoInt, h)
    \/ \E o \in TextOptions, h \in NameHeaderRows, k \in {NoInt, Some(0)} :
          CompareSelection(o, WholeRange(workbook_a), WholeRange(workbook_b),
                           k, NoInt, k, NoInt, h)
    \/ \E o \in TextOptions, use_key \in BOOLEAN :
          StartSmartCompare(o, <<>>, TRUE, use_key, 0)

SpecNames == InitNames /\ [][NextNames]_vars

\* The name a header cell gives its column: its text, trimmed and in lower
\* case; <<>> when the cell holds no text or the header row is not in the sheet.
NameOfA(c) ==
    LET v == ValueA(Val(call.header_row), c)
    IN  IF HasText(v) THEN HeaderKey(v) ELSE <<>>
NameOfB(c) ==
    LET v == ValueB(Val(call.header_row), c)
    IN  IF HasText(v) THEN HeaderKey(v) ELSE <<>>

\* Column ca of A and column cb of B carry the same name.
Corresponding(ca, cb) == NameOfA(ca) # <<>> /\ NameOfA(ca) = NameOfB(cb)
NoSharedName == \A ca \in ComparedColsA, cb \in ComparedColsB : ~Corresponding(ca, cb)

\* Two texts that differ under every setting of the options.
StrongDiffer(va, vb) ==
    /\ isinstance_str(va) /\ isinstance_str(vb)
    /\ strip(va.s) # <<>> /\ strip(vb.s) # <<>>
    /\ lower(strip(va.s)) # lower(strip(vb.s))

\* The result of a comparison that read a header row.
HeaderConfigured ==
    /\ call.op \in {"smart_match", "selection", "smart_header", "smart_key"}
    /\ IsSome(call.header_row)
    /\ compare_result.set

\* The row pairs the comparison made: the accepted pairs of a key-based
\* comparison, the rows of equal index otherwise.
PairedRows ==
    IF IsSome(call.key_col1_a) THEN {<<m.row_a, m.row_b>> : m \in Matches}
    ELSE {<<r, r>> : r \in ComparedRowsA \cap ComparedRowsB}

\* A record of the cell pair (ra, ca) of A and (rb, cb) of B.
Reported(ra, ca, rb, cb) ==
    \E k \in DOMAIN Diffs :
        /\ Diffs[k].row = ra /\ Diffs[k].col = ca
        /\ Diffs[k].old_value = ValueA(ra, ca)
        /\ Diffs[k].new_value = ValueB(rb, cb)

\* C12: in every comparison that pairs columns by header only, two columns
\* whose header texts are equal after trimming and lower-casing correspond
\* whatever ignore_case and ignore_whitespace are: a pair of differing cells
\* of such columns in rows of equal index is reported.
C12_HeaderNamesNormalised ==
    (HeaderConfigured /\ ~IsSome(call.key_col1_a)) =>
        \A ca \in ComparedColsA, cb \in ComparedColsB :
            Corresponding(ca, cb) =>
                \A p \in PairedRows :
                    StrongDiffer(ValueA(p[1], ca), ValueB(p[2], cb))
                        => Reported(p[1], ca, p[2], cb)

\* C13: when the configured header row gives the two sheets no common name
\* (it lies outside the sheets, is empty, or the names differ), the columns
\* are paired by index: a pair of differing cells in the same non-key column
\* of two paired rows is reported.
C13_HeaderFallbackPositional ==
    (HeaderConfigured /\ NoSharedName) =>
        \A p \in PairedRows, c \in ComparedColsA \cap ComparedColsB :
            (~OptEq(c, call.key_col1_a)
             /\ StrongDiffer(ValueA(p[1], c), ValueB(p[2], c)))
                => Reported(p[1], c, p[2], c)

\* C14: with a key column and a header row both configured, the cells of a
\* row pair matched by key are compared column by header name: differing
\* cells of two columns of one name are reported, and a Modified record of a
\* matched row holds B's value of the column that has A's column name.
C14_KeyRowsWithHeaderColumns ==
    (HeaderConfigured /\ IsSome(call.key_col1_a) /\ ~NoSharedName) =>
        \A m \in Matches :
            /\ \A ca \in ComparedColsA, cb \in ComparedColsB :
                  (/\ Corresponding(ca, cb)
                   /\ ~OptEq(ca, call.key_col1_a) /\ ~OptEq(cb, call.key_col1_b)
                   /\ StrongDiffer(ValueA(m.row_a, ca), ValueB(m.row_b, cb)))
                      => Reported(m.row_a, ca, m.row_b, cb)
            /\ \A k \in ModifiedOfA(m.row_a) :
                  \E cb \in ComparedColsB :
                      /\ Corresponding(Diffs[k].col, cb)
                      /\ Diffs[k].new_value = ValueB(m.row_b, cb)

(***************************************************************************)
(* compare_service.py: CompareService._compare_numeric and _to_numeric.     *)
(***************************************************************************)
\* float('nan'): a float that is != every float, itself included.
NaN == [t |-> "nan", s |-> <<>>, n |-> 0]

\* The cell_type the loaders give a cell of value v (ExcelService._parse_cell).
cell_type(v) ==
    IF isinstance_str(v) /\ v.s # <<>> /\ Head(v.s) = "=" THEN "formula"
    ELSE IF v = None \/ PyEq(v, EmptyStr) THEN "empty"
    ELSE IF v.t = "bool" THEN "boolean"
    ELSE IF v.t = "num" THEN "number"
    ELSE "string"

IsDigit(c) == \E k \in 0..9 : Digit(k) = c
DigitVal(c) == CHOOSE k \in 0..9 : Digit(k) = c

RECURSIVE IntOf(_)
IntOf(chars) ==
    IF chars = <<>> THEN 0
    ELSE 10 * IntOf(SubSeq(chars, 1, Len(chars) - 1)) + DigitVal(chars[Len(chars)])

\* float(text) for the texts of the model: blanks around the literal are
\* dropped, a sign is read, "nan" in any case is NaN, a run of digits is its
\* number; every other text raises ValueError (None here).
float_of_str(chars) ==
    LET s0 == strip(chars)
        signed == s0 # <<>> /\ Head(s0) \in {"-", "+"}
        digits == IF signed THEN Tail(s0) ELSE s0
    IN  IF lower(digits) = <<"n", "a", "n">> THEN NaN
        ELSE IF digits # <<>> /\ \A i \in DOMAIN digits : IsDigit(digits[i])
        THEN Num(IF signed /\ Head(s0) = "-" THEN -IntOf(digits) ELSE IntOf(digits))
        ELSE None

_to_numeric(cell) ==
    IF cell_type(cell.value) = "number" THEN cell.value
    ELSE IF cell_type(cell.value) = "string" THEN float_of_str(cell.value.s)
    ELSE None

\* `val_a != val_b` on Optional[float].
NumericDiffer(val_a, val_b) == val_a = NaN \/ val_b = NaN \/ val_a # val_b

_compare_numeric(sheet_a, sheet_b, options) ==
    LET max_rows == Max2(row_count(sheet_a), row_count(sheet_b))
        max_cols == Max2(col_count(sheet_a), col_count(sheet_b))
        At(row, col) ==
            LET val_a == _to_numeric(get_cell(sheet_a, row, col))
                val_b == _to_numeric(get_cell(sheet_b, row, col))
                diff_type == IF val_a = None /\ val_b # None THEN ADDED
                             ELSE IF val_a # None /\ val_b = None THEN DELETED
                             ELSE MODIFIED
            IN  IF NumericDiffer(val_a, val_b)
                THEN <<DiffResult(sheet_a.name, row, col, diff_type, val_a, val_b,
                                  NoInt, NoInt)>>
                ELSE <<>>
    IN  Concat([r \in 1..max_rows |->
                  Concat([c \in 1..max_cols |-> At(r - 1, c - 1)], 1, max_cols)],
               1, max_rows)

\* _start_compare without key column and header row, in NUMERIC mode.
StartCompareNumeric(options) ==
    /\ Idle
    /\ Store([diffs |-> _compare_numeric(workbook_a, workbook_b, options), matches |-> {}])
    /\ call' = Call("numeric", options, NoInt, NoInt, NoInt, NoInt, NoInt, NoRange, NoRange)
    /\ UNCHANGED <<workbook_a, workbook_b>>

(***************************************************************************)
(* SpecNumeric: numeric comparison of sheets of at most MaxCells cells.     *)
(***************************************************************************)
\* Cell values: numbers, texts that are a number, texts that are not, the
\* text "nan", a boolean, no value.
NumericValues ==
    {None, Num(3), Num(4), Str(<<"3">>), Str(<<"x">>), Str(<<"n", "a", "n">>), Bool(TRUE)}

NumericSheets ==
    UNION {{SheetData("S", [i \in 1..sh[1] |-> [j \in 1..sh[2] |-> Cell(f[<<i, j>>])]]) :
              f \in [(1..sh[1]) \X (1..sh[2]) -> NumericValues]} : sh \in ExactShapes}

InitNumeric == Loaded(NumericSheets, NumericSheets)

NextNumeric == \E o \in CaseOptions : StartCompareNumeric(o)

SpecNumeric == InitNumeric /\ [][NextNumeric]_vars

\* What numeric mode maps a cell to: a number or no value.
NumericA(r, c) == _to_numeric(get_cell(workbook_a, r, c))
NumericB(r, c) == _to_numeric(get_cell(workbook_b, r, c))
RecordsAt(r, c) == {k \in DOMAIN Diffs : Diffs[k].row = r /\ Diffs[k].col = c}

\* The one record of kind `kind` a coordinate has, with the parsed numbers.
OneNumericRecord(r, c, kind) ==
    /\ Cardinality(RecordsAt(r, c)) = 1
    /\ \A k \in RecordsAt(r, c) :
          /\ Diffs[k].diff_type = kind
          /\ Diffs[k].old_value = NumericA(r, c)
          /\ Diffs[k].new_value = NumericB(r, c)

\* C15: in numeric mode a cell pair mapped to the same number, or to no
\* value on both sides, has no record; a pair with a number in B only has
\* one Added record, with a number in A only one Deleted record, with two
\* different numbers one Modified record; the record holds the parsed numbers.
C15_NumericMode ==
    call.op = "numeric" =>
        \A r \in 0..(Max2(row_count(workbook_a), row_count(workbook_b)) - 1),
           c \in 0..(Max2(col_count(workbook_a), col_count(workbook_b)) - 1) :
            LET a == NumericA(r, c)
                b == NumericB(r, c)
            IN  IF a = b THEN RecordsAt(r, c) = {}
                ELSE IF a = None THEN OneNumericRecord(r, c, ADDED)
                ELSE IF b = None THEN OneNumericRecord(r, c, DELETED)
                ELSE OneNumericRecord(r, c, MODIFIED)

(***************************************************************************)
(* SpecExtent: CompareService EXACT on two sheets of different shapes whose *)
(* cells carry a style, under every setting of the four options.            *)
(***************************************************************************)
\* Cells of file A: no value, blanks, a text in either case.
ExtentCellsA == {Cell(v) : v \in ExactValues}

\* Cells of file B: no value, and a text in the plain or in another style.
ExtentCellsB == {Cell(None), Cell(Str(<<"x">>)), CellData(Str(<<"x">>), "bold")}

ExtentSheets(cells) ==
    UNION {{SheetData("S", [i \in 1..sh[1] |-> [j \in 1..sh[2] |-> f[<<i, j>>]]]) :
              f \in [(1..sh[1]) \X (1..sh[2]) -> cells]} : sh \in ExactShapes}

FormatOptions ==
    {CompareOptions(ic, iw, ier, ifmt) :
        ic \in BOOLEAN, iw \in BOOLEAN, ier \in BOOLEAN, ifmt \in BOOLEAN}

InitExtent == Loaded(ExtentSheets(ExtentCellsA), ExtentSheets(ExtentCellsB))

NextExtent == \E o \in FormatOptions : StartCompareExact(o)

SpecExtent == InitExtent /\ [][NextExtent]_vars

\* normalize(v, opts): a text is lower-cased under ignore_case and trimmed
\* under ignore_whitespace; any other value is left as it is.
Normalized(v) ==
    LET v1 == IF call.options.ignore_case THEN LowerIfStr(v) ELSE v
    IN  IF call.options.ignore_whitespace THEN StripIfStr(v1) ELSE v1

\* The coordinates of the union of the two extents.
UnionCoords ==
    (0..(Max2(row_count(workbook_a), row_count(workbook_b)) - 1))
    \X (0..(Max2(col_count(workbook_a), col_count(workbook_b)) - 1))

InExtent(sheet, r, c) == r < row_count(sheet) /\ c < col_count(sheet)

\* The value-difference verdict of a coordinate: a side outside its grid's
\* extent counts as Empty.
ValuesDifferAt(r, c) ==
    LET a == Normalized(ValueA(r, c))
        b == Normalized(ValueB(r, c))
    IN  ~(IsBlank(a) /\ IsBlank(b)) /\ ~PyEq(a, b)

\* The value records (Modified, Added, Deleted) of a coordinate.
ValueRecordsAt(r, c) == {k \in RecordsAt(r, c) : Diffs[k].diff_type # FORMAT_CHANGED}

\* The coordinate's cells hold equal values that are not empty, in two styles.
FormatDiffersAt(r, c) ==
    /\ ~ValuesDifferAt(r, c)
    /\ ~IsBlank(Normalized(ValueA(r, c)))
    /\ _compare_styles(get_cell(workbook_a, r, c), get_cell(workbook_b, r, c))

\* C16 (amended): in EXACT mode every coordinate of the union of the two
\* extents has at most one record; it has a value record if and only if the
\* two normalized values differ and are not both empty, Added where A's side
\* is empty and Deleted where B's side is empty; it has a FormatChanged
\* record if and only if ignore_format is off and the cells hold equal
\* non-empty values in different styles.  No record lies outside the union.
C16_UnionOfExtents ==
    call.op = "exact" =>
        /\ \A k \in DOMAIN Diffs : <<Diffs[k].row, Diffs[k].col>> \in UnionCoords
        /\ \A rc \in UnionCoords :
              LET r == rc[1]
                  c == rc[2]
              IN  /\ Cardinality(RecordsAt(r, c)) <= 1
                  /\ ValuesDifferAt(r, c) <=> ValueRecordsAt(r, c) # {}
                  /\ (~call.options.ignore_format /\ FormatDiffersAt(r, c))
                        <=> (RecordsAt(r, c) \ ValueRecordsAt(r, c) # {})
                  /\ \A k \in ValueRecordsAt(r, c) :
                        /\ ~InExtent(workbook_a, r, c) => Diffs[k].diff_type = ADDED
                        /\ ~InExtent(workbook_b, r, c) => Diffs[k].diff_type = DELETED

\* C16 witness: sheets of different shapes, with a Deleted record at a
\* coordinate outside B's extent and an Added record at one outside A's.
C16_Witness ==
    /\ call.op = "exact"
    /\ \E k \in DOMAIN Diffs :
          Diffs[k].diff_type = DELETED /\ ~InExtent(workbook_b, Diffs[k].row, Diffs[k].col)
    /\ \E k \in DOMAIN Diffs :
          Diffs[k].diff_type = ADDED /\ ~InExtent(workbook_a, Diffs[k].row, Diffs[k].col)

\* C16 as stated: a coordinate has exactly one record if and only if the two
\* normalized values differ and are not both empty.
C16_RecordIffValuesDiffer ==
    call.op = "exact" =>
        \A rc \in UnionCoords :
            IF ValuesDifferAt(rc[1], rc[2])
            THEN Cardinality(RecordsAt(rc[1], rc[2])) = 1
            ELSE RecordsAt(rc[1], rc[2]) = {}

(***************************************************************************)
(* SpecSel: comparisons of two selections that start at any row and span    *)
(* any columns, by position and by key (column 0), and smart comparisons    *)
(* of one range of both sheets; a rejected selection of the whole of sheet  *)
(* A and a part of sheet B may follow.                                      *)
(***************************************************************************)
MaxSelRows == 2

SelRowsA == {<<Str(<<"k">>), Str(<<"x">>)>>, <<Str(<<"j">>), Str(<<"y">>)>>}
SelRowsB == {<<Str(<<"k">>), Str(<<"x">>)>>, <<Str(<<"j">>), Str(<<"b">>)>>}

\* The selections that run from a row to the last row over a span of columns.
SelRanges(sheet) ==
    {rng \in {Range(r0, c0, row_count(sheet) - 1, c1) :
                 r0 \in 0..(row_count(sheet) - 1),
                 c0 \in 0..(col_count(sheet) - 1), c1 \in 0..(col_count(sheet) - 1)} :
        rng.min_col <= rng.max_col}

InitSel == Loaded(SheetsOf(SelRowsA, MaxSelRows), SheetsOf(SelRowsB, MaxSelRows))

NextSel ==
    \/ \E ra \in SelRanges(workbook_a), rb \in SelRanges(workbook_b), k \in {NoInt, Some(0)} :
          \E o \in CaseOptions : CompareSelection(o, ra, rb, k, NoInt, k, NoInt, NoInt)
    \/ /\ call.op # "rejected"
       /\ \E rb \in SelRanges(workbook_b), k \in {NoInt, Some(0)} :
             CompareSelectionRejected(WholeRange(workbook_a), rb, k)
    \/ \E rng \in SelRanges(workbook_a), use_key \in BOOLEAN :
          \E o \in CaseOptions : StartSmartCompare(o, <<rng>>, FALSE, use_key, 0)

SpecSel == InitSel /\ [][NextSel]_vars

\* Whether a coordinate lies in a rectangle.
InRect(rng, r, c) ==
    /\ rng.min_row <= r /\ r <= rng.max_row
    /\ rng.min_col <= c /\ c <= rng.max_col

\* The B coordinate of a record as the views read it (diff_view.py:302-303):
\* row_b and col_b, and the record's row and col where they are None.
RowB(d) == IF IsSome(d.row_b) THEN Val(d.row_b) ELSE d.row
ColB(d) == IF IsSome(d.col_b) THEN Val(d.col_b) ELSE d.col

SelectionScoped == call.op \in {"selection", "smart_key", "smart_position"}

\* C17: in a selection-scoped comparison every Modified or Deleted record
\* names a cell inside rectangle A and holds that cell's value as old_value,
\* and every Modified or Added record names a cell inside rectangle B and
\* holds that cell's value as new_value.
C17_SelectionCoordinatesAbsolute ==
    SelectionScoped =>
        \A k \in DOMAIN Diffs :
            LET d == Diffs[k]
            IN  /\ d.diff_type \in {MODIFIED, DELETED} =>
                      /\ InRect(call.range_a, d.row, d.col)
                      /\ d.old_value = ValueA(d.row, d.col)
                /\ d.diff_type \in {MODIFIED, ADDED} =>
                      /\ InRect(call.range_b, RowB(d), ColB(d))
                      /\ d.new_value = ValueB(RowB(d), ColB(d))

\* C18: a selection comparison of two rectangles of different column spans
\* is rejected, and the stored result and the diff index stay as they were.
C18_ColumnSpanContract ==
    [][(/\ call' # call
        /\ call'.op \in {"selection", "rejected"}
        /\ RangeCols(call'.range_a) # RangeCols(call'.range_b))
          => (/\ call'.op = "rejected"
              /\ compare_result' = compare_result
              /\ current_diff_index' = current_diff_index)]_vars

\* C18 witness: a rejected selection of unequal column spans and equal row
\* spans, with a key column configured, after a comparison that stored a
\* result with records.
C18_Witness ==
    /\ call.op = "rejected"
    /\ RangeCols(call.range_a) # RangeCols(call.range_b)
    /\ RangeRows(call.range_a) = RangeRows(call.range_b)
    /\ IsSome(call.key_col1_a)
    /\ compare_result.set
    /\ current_diff_index = 0

(***************************************************************************)
(* SpecSettings: the texts of the settings panel (region string, key-column *)
(* designator) as the handlers parse them before they compare.              *)
(***************************************************************************)
UpperLetters ==
    <<"A", "B", "C", "D", "E", "F", "G", "H", "I", "J", "K", "L", "M",
      "N", "O", "P", "Q", "R", "S", "T", "U", "V", "W", "X", "Y", "Z">>

LowerLetters ==
    <<"a", "b", "c", "d", "e", "f", "g", "h", "i", "j", "k", "l", "m",
      "n", "o", "p", "q", "r", "s", "t", "u", "v", "w", "x", "y", "z">>

IsUpperLetter(c) == \E i \in DOMAIN UpperLetters : UpperLetters[i] = c
IsLowerLetter(c) == \E i \in DOMAIN LowerLetters : LowerLetters[i] = c

\* str.upper()
upper(chars) ==
    [i \in DOMAIN chars |->
        IF IsLowerLetter(chars[i])
        THEN UpperLetters[CHOOSE k \in DOMAIN LowerLetters : LowerLetters[k] = chars[i]]
        ELSE chars[i]]

\* ord(c) of the characters a settings text is made of.
Punctuation == <<<<" ", 32>>, <<"-", 45>>, <<":", 58>>>>

ord(c) ==
    IF IsUpperLetter(c) THEN 64 + (CHOOSE k \in DOMAIN UpperLetters : UpperLetters[k] = c)
    ELSE IF IsLowerLetter(c) THEN 96 + (CHOOSE k \in DOMAIN LowerLetters : LowerLetters[k] = c)
    ELSE IF IsDigit(c) THEN 48 + DigitVal(c)
    ELSE Punctuation[CHOOSE k \in DOMAIN Punctuation : Punctuation[k][1] = c][2]

\* str.isdigit()
isdigit(chars) == chars # <<>> /\ \A i \in DOMAIN chars : IsDigit(chars[i])

\* The loop `result = result * 26 + (ord(char) - ord('A') + 1)` over the
\* characters of col_str, from `result`.
RECURSIVE LetterFold(_, _)
LetterFold(col_str, result) ==
    IF col_str = <<>> THEN result
    ELSE LetterFold(Tail(col_str), result * 26 + (ord(Head(col_str)) - ord("A") + 1))

\* CellRange._col_to_index
_col_to_index(col_str) == LetterFold(col_str, 0) - 1

\* `([A-Z]+)(\d+)`: the text is a run of letters followed by a run of digits.
IsCellRef(part) ==
    \E k \in 1..(Len(part) - 1) :
        /\ \A i \in 1..k : IsUpperLetter(part[i])
        /\ \A i \in (k + 1)..Len(part) : IsDigit(part[i])

RefLetters(part) == SelectSeq(part, IsUpperLetter)
RefDigits(part) == SelectSeq(part, IsDigit)

\* re.match(r'^([A-Z]+)(\d+):([A-Z]+)(\d+)$', range_str): a colon is neither
\* a letter nor a digit, so a match has exactly one.
RangeMatch(range_str) ==
    LET colons == {i \in DOMAIN range_str : range_str[i] = ":"}
    IN  /\ Cardinality(colons) = 1
        /\ IsCellRef(SubSeq(range_str, 1, SetMin(colons) - 1))
        /\ IsCellRef(SubSeq(range_str, SetMin(colons) + 1, Len(range_str)))

\* A faulty variant: the row numbers are taken as 0-indexed.
from_string_RowsAsGiven(text) ==
    LET range_str == upper(strip(text))
        colon == SetMin({i \in DOMAIN range_str : range_str[i] = ":"})
        first == SubSeq(range_str, 1, colon - 1)
        second == SubSeq(range_str, colon + 1, Len(range_str))
        start_col == _col_to_index(RefLetters(first))
        start_row == IntOf(RefDigits(first))
        end_col == _col_to_index(RefLetters(second))
        end_row == IntOf(RefDigits(second))
    IN  IF ~RangeMatch(range_str) THEN <<>>
        ELSE IF start_row > end_row \/ start_col > end_col THEN <<>>
        ELSE <<Range(start_row, start_col, end_row, end_col)>>

\* CellRange.from_string: <<>> stands for the ValueError, <<r>> for the
\* rectangle returned.
from_string(text) ==
    LET range_str == upper(strip(text))
        colon == SetMin({i \in DOMAIN range_str : range_str[i] = ":"})
        first == SubSeq(range_str, 1, colon - 1)
        second == SubSeq(range_str, colon + 1, Len(range_str))
        start_col == _col_to_index(RefLetters(first))
        start_row == IntOf(RefDigits(first)) - 1
        end_col == _col_to_index(RefLetters(second))
        end_row == IntOf(RefDigits(second)) - 1
    IN  IF ~RangeMatch(range_str) THEN <<>>
        ELSE IF start_row > end_row \/ start_col > end_col THEN <<>>
        ELSE <<Range(start_row, start_col, end_row, end_col)>>

\* The key column index _start_smart_compare computes (lines 892-902); the
\* option keeps its default 0 when no designator is used.
smart_key_column_index(use_key, key_column) ==
    LET key_col == upper(strip(key_column))
    IN  IF ~(use_key /\ key_column # <<>>) THEN 0
        ELSE IF isdigit(key_col) THEN IntOf(key_col) - 1
        ELSE LetterFold(key_col, 0) - 1

\* parse_col of ConfigPanel.get_key_column_config: only the letters of the
\* text are folded.
parse_col(text) ==
    LET key_str == upper(strip(text))
        col_idx == LetterFold(SelectSeq(key_str, IsUpperLetter), 0)
    IN  IF key_str = <<>> THEN NoInt
        ELSE IF isdigit(key_str) THEN Some(IntOf(key_str) - 1)
        ELSE IF col_idx > 0 THEN Some(col_idx - 1)
        ELSE NoInt

\* _start_smart_compare on the texts of the panel: a region text that does
\* not parse ends the handler with a warning; otherwise the comparison runs
\* on the parsed rectangle (the whole sheet for an empty text).
StartSmartCompareSettings(options, range_text, use_header, use_key, key_text) ==
    LET range_str == strip(range_text)
        key_column == strip(key_text)
    IN  IF range_str # <<>> /\ from_string(range_str) = <<>>
        THEN /\ Idle
             /\ call' = Call("range_error", options, NoInt, NoInt, NoInt, NoInt, NoInt,
                             NoRange, NoRange)
             /\ UNCHANGED <<workbook_a, workbook_b, compare_result, current_diff_index>>
        ELSE StartSmartCompare(options,
                               IF range_str = <<>> THEN <<>> ELSE from_string(range_str),
                               use_header, use_key,
                               smart_key_column_index(use_key, key_column))

\* _start_compare with the key column box checked and the designator of file
\* A filled in (file B takes the same column, no second key, no header row).
StartCompareSettings(options, key_text) ==
    LET key_col1_a == parse_col(key_text)
    IN  IF IsSome(key_col1_a)
        THEN StartCompareSmartMatch(options, key_col1_a, NoInt, key_col1_a, NoInt, NoInt)
        ELSE StartCompareExact(options)

\* Region texts: well formed (also in lower case and with blanks around),
\* and malformed in each way (row 0, start after end, no colon, a digit
\* where the column letters belong, no row number).
RangeTexts ==
    {<<>>,
     <<"A", "1", ":", "B", "2">>,
     <<" ", "a", "1", ":", "b", "2", " ">>,
     <<"B", "2", ":", "B", "2">>,
     <<"A", "0", ":", "B", "1">>,
     <<"A", "2", ":", "B", "1">>,
     <<"B", "1", ":", "A", "2">>,
     <<"A", "1", "B", "2">>,
     <<"1", "1", ":", "B", "2">>,
     <<"A", ":", "B", "2">>}

\* Key-column designators: numbers, letters, and texts that are neither.
KeyTexts ==
    {<<"1">>, <<"2">>, <<"A">>, <<"b">>, <<"0">>, <<"A", "1">>, <<"-">>}

SettingsRowsA == {<<Str(<<"k">>), Str(<<"x">>)>>, <<Str(<<"j">>), Str(<<"y">>)>>}
SettingsRowsB == {<<Str(<<"k">>), Str(<<"x">>)>>, <<Str(<<"j">>), Str(<<"b">>)>>}

InitSettings == Loaded(SheetsOf(SettingsRowsA, MaxSelRows), SheetsOf(SettingsRowsB, MaxSelRows))

\* The designator "-" is left to _start_compare: in _start_smart_compare it
\* gives an index below -len(row), and `row[key_col]` raises IndexError.
NextSettings ==
    \/ \E rt \in RangeTexts, use_header \in BOOLEAN :
          \E o \in CaseOptions : StartSmartCompareSettings(o, rt, use_header, FALSE, <<>>)
    \/ \E rt \in RangeTexts, kt \in KeyTexts \ {<<"-">>} :
          \E o \in CaseOptions : StartSmartCompareSettings(o, rt, FALSE, TRUE, kt)
    \/ \E kt \in KeyTexts :
          \E o \in CaseOptions : StartCompareSettings(o, kt)

SpecSettings == InitSettings /\ [][NextSettings]_vars

SmartOps == {"smart_key", "smart_header", "smart_position"}

\* C19: a region string is turned into a rectangle only when it is well
\* formed with rows >= 1, so the rectangle a smart comparison ran on has
\* 0 <= start_row <= end_row and 0 <= start_col <= end_col; every other
\* string ends the handler without a comparison.
C19_RegionStringsFailFast ==
    call.op \in SmartOps =>
        /\ 0 <= call.range_a.min_row /\ call.range_a.min_row <= call.range_a.max_row
        /\ 0 <= call.range_a.min_col /\ call.range_a.min_col <= call.range_a.max_col

\* C20: a key-column designator is parsed to the index it denotes or is
\* rejected; none is silently mapped to a negative index.
C20_KeyDesignatorsParsedOrRejected ==
    (call.op \in SmartOps \cup {"smart_match"} /\ IsSome(call.key_col1_a)) =>
        Val(call.key_col1_a) >= 0

(***************************************************************************)
(* SpecCodec: the column codec.  A column index is encoded by both encoders *)
(* and the letters are decoded again; `call` records each call's argument   *)
(* and value.                                                               *)
(***************************************************************************)
MaxIndex == 1000

\* chr(n): the inverse of ord.
chr(n) ==
    IF n - 64 \in DOMAIN UpperLetters THEN UpperLetters[n - 64]
    ELSE CHOOSE c \in {LowerLetters[k] : k \in DOMAIN LowerLetters}
                      \cup {Digit(k) : k \in 0..9}
                      \cup {Punctuation[k][1] : k \in DOMAIN Punctuation} : ord(c) = n

\* A faulty variant: the carry `- 1` of the bijective base 26 is dropped
\* (the loop then ends at index 0).
RECURSIVE index_to_col_NoCarry(_, _)
index_to_col_NoCarry(index, result) ==
    IF index < 0 THEN result
    ELSE index_to_col_NoCarry(IF index < 26 THEN -1 ELSE index \div 26,
                              <<chr((index % 26) + ord("A"))>> \o result)

\* The loop of CellRange._index_to_col, from `result`:
\* `while index >= 0: result = chr(index % 26 + ord('A')) + result;
\*  index = index // 26 - 1`.
RECURSIVE index_to_col_loop(_, _)
index_to_col_loop(index, result) ==
    IF index < 0 THEN result
    ELSE index_to_col_loop(index \div 26 - 1, <<chr((index % 26) + ord("A"))>> \o result)

_index_to_col(index) == index_to_col_loop(index, <<>>)

\* DiffResult._col_to_letter: its own copy of the loop.
RECURSIVE col_to_letter_loop(_, _)
col_to_letter_loop(col, result) ==
    IF col >= 0
    THEN col_to_letter_loop(col \div 26 - 1, <<chr((col % 26) + ord("A"))>> \o result)
    ELSE result

_col_to_letter(col) == col_to_letter_loop(col, <<>>)

NoSheet == SheetData("S", <<>>)

InitCodec ==
    /\ workbook_a = NoSheet
    /\ workbook_b = NoSheet
    /\ compare_result = NoResult
    /\ current_diff_index = -1
    /\ call \in {[op |-> "none", index |-> i] : i \in 0..MaxIndex}

\* CellRange._index_to_col(index) and DiffResult._col_to_letter(index).
EncodeIndex ==
    /\ call.op = "none"
    /\ call' = [op |-> "_index_to_col", index |-> call.index,
                col_str |-> _index_to_col(call.index),
                letter |-> _col_to_letter(call.index)]
    /\ UNCHANGED <<workbook_a, workbook_b, compare_result, current_diff_index>>

\* CellRange._col_to_index on the letters the encoder gave.
DecodeLetters ==
    /\ call.op = "_index_to_col"
    /\ call' = [op |-> "_col_to_index", index |-> call.index, col_str |-> call.col_str,
                result |-> _col_to_index(call.col_str)]
    /\ UNCHANGED <<workbook_a, workbook_b, compare_result, current_diff_index>>

NextCodec == EncodeIndex \/ DecodeLetters

SpecCodec == InitCodec /\ [][NextCodec]_vars

\* C21: decoding the letters of an index gives the index back; index 0 is
\* "A", 25 is "Z", 26 is "AA"; and DiffResult._col_to_letter gives the same
\* letters as CellRange._index_to_col.
C21_ColumnCodecRoundTrip ==
    /\ call.op = "_col_to_index" => call.result = call.index
    /\ call.op = "_index_to_col" =>
          /\ call.letter = call.col_str
          /\ call.index = 0 => call.col_str = <<"A">>
          /\ call.index = 25 => call.col_str = <<"Z">>
          /\ call.index = 26 => call.col_str = <<"A", "A">>

C21_Witness ==
    /\ call.op = "_col_to_index"
    /\ call.index = 1000
    /\ call.col_str = <<"A", "L", "M">>
    /\ call.result = 1000

(***************************************************************************)
(* SpecRegion: region strings.  A rectangle is written by __str__ and read  *)
(* back by from_string; a text is read by from_string and written back.     *)
(***************************************************************************)
MaxRegionRow == 10
MaxRegionCol == 27

\* CellRange.__str__; str(int) is Digits.
CellRange__str__(r) ==
    _index_to_col(r.min_col) \o Digits(r.min_row + 1) \o <<":">>
        \o _index_to_col(r.max_col) \o Digits(r.max_row + 1)

\* The rectangles with 0 <= start_row <= end_row, 0 <= start_col <= end_col.
Rectangles ==
    {Range(r0, c0, r1, c1) : r0 \in 0..MaxRegionRow, c0 \in 0..MaxRegionCol,
                             r1 \in 0..MaxRegionRow, c1 \in 0..MaxRegionCol}

OrderedRectangles ==
    {r \in Rectangles : r.min_row <= r.max_row /\ r.min_col <= r.max_col}

\* Column letters and row numbers region texts are put together from:
\* one and two letters, a lower-case letter; one and two digits, a leading
\* zero, the row number 0.
RegionLetters == {<<"A">>, <<"B">>, <<"Z">>, <<"A", "A">>, <<"A", "B">>, <<"a">>}
RegionNumbers == {<<"1">>, <<"2">>, <<"9">>, <<"1", "0">>, <<"0", "1">>, <<"0">>}

RegionTexts ==
    {l1 \o d1 \o <<":">> \o l2 \o d2 :
        l1 \in RegionLetters, d1 \in RegionNumbers, l2 \in RegionLetters, d2 \in RegionNumbers}

InitRegion ==
    /\ workbook_a = NoSheet
    /\ workbook_b = NoSheet
    /\ compare_result = NoResult
    /\ current_diff_index = -1
    /\ call \in {[op |-> "none", r |-> r] : r \in OrderedRectangles}
                \cup {[op |-> "text", text |-> s] : s \in RegionTexts}

\* str(r)
WriteRectangle ==
    /\ call.op = "none"
    /\ call' = [op |-> "__str__", r |-> call.r, text |-> CellRange__str__(call.r)]
    /\ UNCHANGED <<workbook_a, workbook_b, compare_result, current_diff_index>>

\* CellRange.from_string(str(r))
ReadWritten ==
    /\ call.op = "__str__"
    /\ call' = [op |-> "from_string", r |-> call.r, text |-> call.text,
                parsed |-> from_string(call.text)]
    /\ UNCHANGED <<workbook_a, workbook_b, compare_result, current_diff_index>>

\* CellRange.from_string(s)
ReadText ==
    /\ call.op = "text"
    /\ call' = [op |-> "parsed", text |-> call.text, parsed |-> from_string(call.text)]
    /\ UNCHANGED <<workbook_a, workbook_b, compare_result, current_diff_index>>

\* str(CellRange.from_string(s)), when from_string returned.
WriteParsed ==
    /\ call.op = "parsed"
    /\ call.parsed # <<>>
    /\ call' = [op |-> "rewritten", text |-> call.text, parsed |-> call.parsed,
                again |-> CellRange__str__(call.parsed[1])]
    /\ UNCHANGED <<workbook_a, workbook_b, compare_result, current_diff_index>>

NextRegion == WriteRectangle \/ ReadWritten \/ ReadText \/ WriteParsed

SpecRegion == InitRegion /\ [][NextRegion]_vars

\* Lower column letters first: shorter, or as long and not later in the
\* alphabet.
RECURSIVE LettersLeq(_, _)
LettersLeq(a, b) ==
    IF Len(a) # Len(b) THEN Len(a) < Len(b)
    ELSE IF a = <<>> THEN TRUE
    ELSE IF Head(a) # Head(b) THEN ord(Head(a)) < ord(Head(b))
    ELSE LettersLeq(Tail(a), Tail(b))

\* A canonical region string: upper-case letters, row numbers >= 1 without
\* leading zeros, start <= end on both axes.
Canonical(s) ==
    LET colon == SetMin({i \in DOMAIN s : s[i] = ":"})
        first == SubSeq(s, 1, colon - 1)
        second == SubSeq(s, colon + 1, Len(s))
    IN  /\ RangeMatch(s)
        /\ Head(RefDigits(first)) # "0"
        /\ Head(RefDigits(second)) # "0"
        /\ IntOf(RefDigits(first)) <= IntOf(RefDigits(second))
        /\ LettersLeq(RefLetters(first), RefLetters(second))

\* C22: from_string(str(r)) = r for every rectangle with ordered corners,
\* and str(from_string(s)) = s for every canonical region string s; "B2:F20"
\* is rows 1..19, columns 1..5.
C22_RegionRoundTrip ==
    /\ call.op = "from_string" => call.parsed = <<call.r>>
    /\ (call.op = "parsed" /\ Canonical(call.text)) => call.parsed # <<>>
    /\ (call.op = "rewritten" /\ Canonical(call.text)) => call.again = call.text
    /\ from_string(<<"B", "2", ":", "F", "2", "0">>) = <<Range(1, 1, 19, 5)>>
    /\ CellRange__str__(Range(1, 1, 19, 5)) = <<"B", "2", ":", "F", "2", "0">>

C22_Witness ==
    /\ call.op = "rewritten"
    /\ call.text = <<"Z", "9", ":", "A", "B", "1", "0">>
    /\ call.parsed = <<Range(8, 25, 9, 27)>>
    /\ call.again = call.text

(***************************************************************************)
(* SpecSummary: every comparison that builds a CompareResult, on sheets     *)
(* whose cells carry a style, so that all four kinds of record occur.       *)
(***************************************************************************)
InitSummary == Loaded(ExtentSheets(ExtentCellsA), ExtentSheets(ExtentCellsB))

NextSummary ==
    \/ \E o \in FormatOptions : StartCompareExact(o)
    \/ \E o \in CaseOptions : StartCompareSmartMatch(o, Some(0), NoInt, Some(0), NoInt, NoInt)
    \/ \E o \in CaseOptions, k \in {NoInt, Some(0)} :
          CompareSelection(o, WholeRange(workbook_a), WholeRange(workbook_b),
                           k, NoInt, k, NoInt, NoInt)
    \/ \E o \in CaseOptions, use_key \in BOOLEAN : StartSmartCompare(o, <<>>, FALSE, use_key, 0)

SpecSummary == InitSummary /\ [][NextSummary]_vars

\* C23: the summary of a stored result counts its records: total is the
\* length of the list, each kind's count is the number of records of that
\* kind, and the four counts add up to the total.
C23_SummaryIsFoldOfDiffs ==
    compare_result.set =>
        /\ compare_result.summary.total = Len(compare_result.diffs)
        /\ compare_result.summary.modified = CountKind(compare_result.diffs, MODIFIED)
        /\ compare_result.summary.added = CountKind(compare_result.diffs, ADDED)
        /\ compare_result.summary.deleted = CountKind(compare_result.diffs, DELETED)
        /\ compare_result.summary.format_changed
              = CountKind(compare_result.diffs, FORMAT_CHANGED)
        /\ compare_result.summary.total
              = compare_result.summary.modified + compare_result.summary.added
                + compare_result.summary.deleted + compare_result.summary.format_changed

C23_Witness ==
    /\ call.op = "exact"
    /\ compare_result.set
    /\ compare_result.summary.total = 2
    /\ compare_result.summary.format_changed = 1
    /\ compare_result.summary.modified = 1

(***************************************************************************)
(* SpecStructure: CompareService in STRUCTURE mode on two sheets of any     *)
(* small shape.                                                             *)
(***************************************************************************)
\* The records of the rows lo..hi-1 that only `sheet` has: one per cell that
\* is not empty, over the sheet's col_count (lines 244-267).
StructureRowRecords(sheet_name, sheet, lo, hi, diff_type) ==
    LET CellRecord(row, col) ==
            LET cell == get_cell(sheet, row, col)
            IN  IF is_empty(cell) THEN <<>>
                ELSE IF diff_type = ADDED
                THEN <<DiffResult(sheet_name, row, col, ADDED, None, cell.value, NoInt, NoInt)>>
                ELSE <<DiffResult(sheet_name, row, col, DELETED, cell.value, None, NoInt, NoInt)>>
        RowRecords(row) ==
            Concat([c \in 1..col_count(sheet) |-> CellRecord(row, c - 1)],
                   1, col_count(sheet))
    IN  Concat([r \in (lo + 1)..hi |-> RowRecords(r - 1)], lo + 1, hi)

\* CompareService._compare_structure
_compare_structure(sheet_a, sheet_b, options) ==
    LET row_diffs ==
            IF row_count(sheet_a) < row_count(sheet_b)
            THEN StructureRowRecords(sheet_a.name, sheet_b, row_count(sheet_a),
                                     row_count(sheet_b), ADDED)
            ELSE IF row_count(sheet_a) > row_count(sheet_b)
            THEN StructureRowRecords(sheet_a.name, sheet_a, row_count(sheet_b),
                                     row_count(sheet_a), DELETED)
            ELSE <<>>
        common_rows == IF row_count(sheet_a) < row_count(sheet_b)
                       THEN row_count(sheet_a) ELSE row_count(sheet_b)
        common_cols == IF col_count(sheet_a) < col_count(sheet_b)
                       THEN col_count(sheet_a) ELSE col_count(sheet_b)
        RowDiffs(row) ==
            Concat([c \in 1..common_cols |->
                      _compare_cells(sheet_a.name, row, c - 1,
                                     get_cell(sheet_a, row, c - 1),
                                     get_cell(sheet_b, row, c - 1), options)],
                   1, common_cols)
    IN  row_diffs \o Concat([r \in 1..common_rows |-> RowDiffs(r - 1)], 1, common_rows)

\* _start_compare without key column and header row, in STRUCTURE mode.
StartCompareStructure(options) ==
    /\ Idle
    /\ Store([diffs |-> _compare_structure(workbook_a, workbook_b, options), matches |-> {}])
    /\ call' = Call("structure", options, NoInt, NoInt, NoInt, NoInt, NoInt, NoRange, NoRange)
    /\ UNCHANGED <<workbook_a, workbook_b>>

InitStructure == Loaded(ExactSheets, ExactSheets)

NextStructure == \E o \in AllOptions : StartCompareStructure(o)

SpecStructure == InitStructure /\ [][NextStructure]_vars

\* The coordinates of `sheet` outside the extent both sheets share.
OutsideCommon(sheet) ==
    {rc \in (0..(row_count(sheet) - 1)) \X (0..(col_count(sheet) - 1)) :
        \/ rc[1] >= row_count(workbook_a) \/ rc[1] >= row_count(workbook_b)
        \/ rc[2] >= col_count(workbook_a) \/ rc[2] >= col_count(workbook_b)}

StructureRecordsAt(rc) ==
    {i \in DOMAIN compare_result.diffs :
        compare_result.diffs[i].row = rc[1] /\ compare_result.diffs[i].col = rc[2]}

\* C24: in STRUCTURE mode every non-empty cell of B outside the common
\* extent has one Added record and every non-empty cell of A outside it has
\* one Deleted record; inside the common extent the records are those of
\* the cell-diff rule.
C24_StructureCountDelta ==
    call.op = "structure" =>
        /\ \A rc \in OutsideCommon(workbook_b) :
              ~is_empty(get_cell(workbook_b, rc[1], rc[2])) =>
                  \E i \in StructureRecordsAt(rc) :
                      /\ StructureRecordsAt(rc) = {i}
                      /\ compare_result.diffs[i].diff_type = ADDED
        /\ \A rc \in OutsideCommon(workbook_a) :
              ~is_empty(get_cell(workbook_a, rc[1], rc[2])) =>
                  \E i \in StructureRecordsAt(rc) :
                      /\ StructureRecordsAt(rc) = {i}
                      /\ compare_result.diffs[i].diff_type = DELETED
        /\ \A r \in 0..(row_count(workbook_a) - 1), c \in 0..(col_count(workbook_a) - 1) :
              (r < row_count(workbook_b) /\ c < col_count(workbook_b)) =>
                  [k \in 1..Cardinality(StructureRecordsAt(<<r, c>>)) |->
                      compare_result.diffs[SeqOfSet(StructureRecordsAt(<<r, c>>))[k]]]
                    = _compare_cells(workbook_a.name, r, c, get_cell(workbook_a, r, c),
                                     get_cell(workbook_b, r, c), call.options)

(***************************************************************************)
(* SpecTie: key-based comparison of sheets in which one key has several     *)
(* rows on both sides, so that candidate pairs tie in distance.             *)
(***************************************************************************)
MaxTieRows == 3

\* A row of the key "k" and a row without a key.
TieRows == {<<Str(<<"k">>), Str(<<"x">>)>>, <<None, Str(<<"x">>)>>}

InitTie == Loaded(SheetsOf(TieRows, MaxTieRows), SheetsOf(TieRows, MaxTieRows))

NextTie ==
    \/ \E o \in CaseOptions :
          StartCompareSmartMatch(o, Some(0), NoInt, Some(0), NoInt, NoInt)
    \/ \E o \in CaseOptions, ra \in TailRanges(workbook_a), rb \in TailRanges(workbook_b) :
          CompareSelection(o, ra, rb, Some(0), NoInt, Some(0), NoInt, NoInt)

SpecTie == InitTie /\ [][NextTie]_vars

\* The order in which the claim says candidate pairs (a, b) of one key are
\* considered: ascending distance, then the lower A row, then the lower B
\* row (the row lists are in row order).
ConsideredBefore(a1, b1, a2, b2) ==
    \/ Abs(a1 - b1) < Abs(a2 - b2)
    \/ Abs(a1 - b1) = Abs(a2 - b2) /\ a1 < a2
    \/ Abs(a1 - b1) = Abs(a2 - b2) /\ a1 = a2 /\ b1 < b2

\* C25: a candidate pair is accepted exactly when no accepted pair that is
\* considered before it (ascending distance, then lower A index, then lower
\* B index) holds one of its rows.
C25_StableTieBreak ==
    GreedyKeyed =>
        \A key \in AllKeys :
            \A a \in ListA(key), b \in ListB(key) :
                (\E m \in MatchesOf(key) : m.row_a = a /\ m.row_b = b)
                <=> ~\E q \in MatchesOf(key) :
                        /\ ConsideredBefore(q.row_a, q.row_b, a, b)
                        /\ q.row_a = a \/ q.row_b = b

\* C25 witness: A's row 1 against B's rows 0 and 2 of the same key, both at
\* distance 1: row 1 is paired with B's row 0 and B's row 2 is unmatched.
C25_Witness ==
    /\ GreedyKeyed
    /\ \E key \in AllKeys :
          /\ ListA(key) = {1}
          /\ ListB(key) = {0, 2}
          /\ \E m \in MatchesOf(key) : m.row_a = 1 /\ m.row_b = 0
          /\ 2 \in UnmatchedRowsB

(***************************************************************************)
(* SpecGreedy: whole-sheet key comparison of sheets long enough for the     *)
(* rows of one key to interleave (A rows 0 and 3, B rows 2 and 4).          *)
(***************************************************************************)
MaxGreedyRowsA == 4
MaxGreedyRowsB == 5

InitGreedy == Loaded(SheetsOf(TieRows, MaxGreedyRowsA), SheetsOf(TieRows, MaxGreedyRowsB))

NextGreedy ==
    \E o \in CaseOptions : StartCompareSmartMatch(o, Some(0), NoInt, Some(0), NoInt, NoInt)

SpecGreedy == InitGreedy /\ [][NextGreedy]_vars

\* The one-to-one matchings of size min(m, n) between two row sets, each as
\* a set of <<row of A, row of B>>.
Matchings(La, Lb) ==
    IF Cardinality(La) <= Cardinality(Lb)
    THEN {{<<a, f[a]>> : a \in La} :
             f \in {g \in [La -> Lb] : \A x, y \in La : g[x] = g[y] => x = y}}
    ELSE {{<<f[b], b>> : b \in Lb} :
             f \in {g \in [Lb -> La] : \A x, y \in Lb : g[x] = g[y] => x = y}}

\* The sum of the row distances of a set of pairs.
RECURSIVE TotalDistance(_)
TotalDistance(P) ==
    IF P = {} THEN 0
    ELSE LET p == CHOOSE x \in P : TRUE
         IN  Abs(p[1] - p[2]) + TotalDistance(P \ {p})

\* The accepted pairs of `key` have the least total distance a one-to-one
\* matching of size min(m, n) can have.
GreedyIsMinimal(key) ==
    TotalDistance({<<m.row_a, m.row_b>> : m \in MatchesOf(key)})
        = SetMin({TotalDistance(P) : P \in Matchings(ListA(key), ListB(key))})

\* C26, as amended: when a key has at most one row in A or at most one row
\* in B, the accepted pairs have the minimum total row distance.
C26_GreedyMinimalForSingleRow ==
    GreedyKeyed =>
        \A key \in AllKeys :
            (Cardinality(ListA(key)) <= 1 \/ Cardinality(ListB(key)) <= 1)
                => GreedyIsMinimal(key)

\* C26 witness: A's single row of a key is paired with the nearer of B's
\* rows, which is not B's first row of the key.
C26_Witness ==
    /\ GreedyKeyed
    /\ \E key \in AllKeys :
          /\ ListA(key) = {3}
          /\ ListB(key) = {0, 2, 4}
          /\ \E m \in MatchesOf(key) : m.row_a = 3 /\ m.row_b = 2

\* C26, as stated: whenever a key has at most two rows in A or at most two
\* rows in B, the accepted pairs have the minimum total row distance.
C26_GreedyMinimalUpToTwoRows ==
    GreedyKeyed =>
        \A key \in AllKeys :
            (Cardinality(ListA(key)) <= 2 \/ Cardinality(ListB(key)) <= 2)
                => GreedyIsMinimal(key)

(***************************************************************************)
(* SpecComposite: key-based comparison with two key columns (columns 0 and  *)
(* 1) and a data column.                                                    *)
(***************************************************************************)
MaxCompositeRows == 2

\* Rows whose first key holds the separator, rows with and without a second
\* key, and a row that differs in case.
CompositeRows ==
    {<<Str(<<"a", "|", "b">>), None, Str(<<"x">>)>>,
     <<Str(<<"a">>), Str(<<"b">>), Str(<<"y">>)>>,
     <<Str(<<"a">>), None, Str(<<"x">>)>>,
     <<Str(<<"A">>), Str(<<" ", "b">>), Str(<<"x">>)>>}

InitComposite ==
    Loaded(SheetsOf(CompositeRows, MaxCompositeRows), SheetsOf(CompositeRows, MaxCompositeRows))

NextComposite ==
    \/ \E o \in CaseOptions :
          StartCompareSmartMatch(o, Some(0), Some(1), Some(0), Some(1), NoInt)
    \/ \E o \in CaseOptions :
          CompareSelection(o, WholeRange(workbook_a), WholeRange(workbook_b),
                           Some(0), Some(1), Some(0), Some(1), NoInt)

SpecComposite == InitComposite /\ [][NextComposite]_vars

\* A key value as the claim compares it: trimmed, lower-cased under
\* ignore_case, and empty for a cell without text.
KeyPart(v) ==
    IF ~HasText(v) THEN <<>>
    ELSE IF call.options.ignore_case THEN lower(strip(PyStr(v))) ELSE strip(PyStr(v))

\* C27: with two key columns, two rows are paired only if their trimmed
\* first keys are equal and their trimmed second keys are equal (an empty
\* second key only with an empty one).
C27_CompositeKeysDoNotCollide ==
    (GreedyKeyed /\ IsSome(call.key_col2_a)) =>
        \A m \in Matches :
            /\ KeyPart(ValueA(m.row_a, KeyColA)) = KeyPart(ValueB(m.row_b, KeyColB))
            /\ KeyPart(ValueA(m.row_a, Val(call.key_col2_a)))
                  = KeyPart(ValueB(m.row_b, Val(KeyCol2B)))

(***************************************************************************)
(* SpecSheets: whole-workbook comparison of two workbooks of one sheet each *)
(* whose sheets may bear different names.                                   *)
(***************************************************************************)
\* CompareService._mark_all_cells
_mark_all_cells(sheet, diff_type, is_new) ==
    LET CellRecord(row, col) ==
            LET cell == get_cell(sheet, row, col)
            IN  IF is_empty(cell) THEN <<>>
                ELSE <<DiffResult(sheet.name, row, col, diff_type,
                                  IF is_new THEN None ELSE cell.value,
                                  IF is_new THEN cell.value ELSE None, NoInt, NoInt)>>
        RowRecords(row) ==
            Concat([c \in 1..col_count(sheet) |-> CellRecord(row, c - 1)],
                   1, col_count(sheet))
    IN  Concat([r \in 1..row_count(sheet) |-> RowRecords(r - 1)], 1, row_count(sheet))

\* CompareService.compare in EXACT mode over sheets_a | sheets_b, visited in
\* `order` (a set of names is iterated in hash order).
compare(wb_a, wb_b, options, order) ==
    LET SheetDiffs(sheet_name) ==
            IF wb_a.name # sheet_name THEN _mark_all_cells(wb_b, ADDED, TRUE)
            ELSE IF wb_b.name # sheet_name THEN _mark_all_cells(wb_a, DELETED, FALSE)
            ELSE _compare_exact(wb_a, wb_b, options)
    IN  Concat([k \in DOMAIN order |-> SheetDiffs(order[k])], 1, Len(order))

\* _start_compare on all sheets: with a key column _compare_with_smart_match
\* takes the sheets `[s for s in sheets_a if s in sheets_b]`, without one
\* CompareService.compare takes the sheets of either workbook.
StartCompareWorkbooks(options, key_col1) ==
    /\ Idle
    /\ IF IsSome(key_col1)
       THEN IF workbook_a.name = workbook_b.name
            THEN StartCompareSmartMatch(options, key_col1, NoInt, key_col1, NoInt, NoInt)
            ELSE /\ Store([diffs |-> <<>>, matches |-> {}])
                 /\ call' = Call("smart_match", options, key_col1, NoInt, key_col1, NoInt,
                                 NoInt, NoRange, NoRange)
                 /\ UNCHANGED <<workbook_a, workbook_b>>
       ELSE /\ \E order \in Perms({workbook_a.name, workbook_b.name}) :
                  Store([diffs |-> compare(workbook_a, workbook_b, options, order),
                         matches |-> {}])
            /\ call' = Call("exact", options, NoInt, NoInt, NoInt, NoInt, NoInt,
                            NoRange, NoRange)
            /\ UNCHANGED <<workbook_a, workbook_b>>

\* The sheets of file B, under the name of A's sheet or under another name.
SheetsNamed(sheets) == sheets \cup {[sh EXCEPT !.name = "T"] : sh \in sheets}

InitSheets ==
    Loaded(SheetsOf(TieRows, MaxCompositeRows), SheetsNamed(SheetsOf(TieRows, MaxCompositeRows)))

NextSheets ==
    \/ \E o \in AllOptions : StartCompareWorkbooks(o, NoInt)
    \/ \E o \in CaseOptions : StartCompareWorkbooks(o, Some(0))

SpecSheets == InitSheets /\ [][NextSheets]_vars

\* The records of a sheet name at a coordinate.
SheetRecordsAt(sheet_name, r, c) ==
    {i \in DOMAIN Diffs :
        Diffs[i].sheet = sheet_name /\ Diffs[i].row = r /\ Diffs[i].col = c}

\* Every non-empty cell of `sheet` has one record, of the kind given.
ReportedWhole(sheet, diff_type) ==
    \A r \in 0..(row_count(sheet) - 1), c \in 0..(col_count(sheet) - 1) :
        ~is_empty(get_cell(sheet, r, c)) =>
            \E i \in SheetRecordsAt(sheet.name, r, c) :
                /\ SheetRecordsAt(sheet.name, r, c) = {i}
                /\ Diffs[i].diff_type = diff_type

\* C28: after a whole-workbook comparison, by position or by key, a sheet
\* that only one workbook has is reported cell by cell: Deleted for a sheet
\* of A, Added for a sheet of B.
C28_OneSidedSheetsReported ==
    (call.op \in {"exact", "smart_match"} /\ workbook_a.name # workbook_b.name) =>
        /\ compare_result.set
        /\ ReportedWhole(workbook_a, DELETED)
        /\ ReportedWhole(workbook_b, ADDED)

(***************************************************************************)
(* SpecNav: comparisons, one after another, and the navigation between the  *)
(* records of the stored result.                                            *)
(***************************************************************************)
NavValues == {None, Str(<<"x">>), Str(<<"X">>)}

NavSheets ==
    UNION {{SheetData("S", [i \in 1..sh[1] |-> [j \in 1..sh[2] |-> Cell(g[i][j])]]) :
               g \in [1..sh[1] -> [1..sh[2] -> NavValues]]} : sh \in ExactShapes}

\* `if not self._compare_result or not self._compare_result.diffs: return`
NoDiffs == ~compare_result.set \/ compare_result.diffs = <<>>

\* A faulty variant: the index is not wrapped after the last record.
NextDiff_NoWrap ==
    /\ call' = [call EXCEPT !.op = "next_diff"]
    /\ current_diff_index' = IF NoDiffs THEN current_diff_index ELSE current_diff_index + 1
    /\ UNCHANGED <<workbook_a, workbook_b, compare_result>>

\* MainWindow._next_diff
NextDiff ==
    /\ call' = [call EXCEPT !.op = "next_diff"]
    /\ current_diff_index' =
          IF NoDiffs THEN current_diff_index
          ELSE IF current_diff_index + 1 >= Len(compare_result.diffs) THEN 0
          ELSE current_diff_index + 1
    /\ UNCHANGED <<workbook_a, workbook_b, compare_result>>

\* MainWindow._prev_diff
PrevDiff ==
    /\ call' = [call EXCEPT !.op = "prev_diff"]
    /\ current_diff_index' =
          IF NoDiffs THEN current_diff_index
          ELSE IF current_diff_index - 1 < 0 THEN Len(compare_result.diffs) - 1
          ELSE current_diff_index - 1
    /\ UNCHANGED <<workbook_a, workbook_b, compare_result>>

\* MainWindow._on_diff_selected(index): the signal of DiffListPanel carries
\* the row the user selected in the table, which set_diffs filled with one
\* row per record of the stored result.
OnDiffSelected(index) ==
    /\ compare_result.set
    /\ index \in 0..(Len(compare_result.diffs) - 1)
    /\ call' = [call EXCEPT !.op = "diff_selected"]
    /\ current_diff_index' = index
    /\ UNCHANGED <<workbook_a, workbook_b, compare_result>>

InitNav == Loaded(NavSheets, NavSheets)

NextNav ==
    \/ \E o \in CaseOptions : DoCompareExact(o)
    \/ \E o \in CaseOptions :
          DoCompareSelection(o, WholeRange(workbook_a), WholeRange(workbook_b),
                             NoInt, NoInt, NoInt, NoInt, NoInt)
    \/ \E o \in CaseOptions : DoSmartCompare(o, <<>>, FALSE, FALSE, 0)
    \/ NextDiff
    \/ PrevDiff
    \/ \E index \in 0..MaxCells : OnDiffSelected(index)

SpecNav == InitNav /\ [][NextNav]_vars

\* The index is -1 without records and an index of the list otherwise.
IndexInRange ==
    IF NoDiffs THEN current_diff_index = -1
    ELSE current_diff_index \in 0..(Len(compare_result.diffs) - 1)

\* What a step of next-diff or previous-diff does to the index.
NavigationStep ==
    /\ (call'.op = "next_diff" /\ ~NoDiffs) =>
          current_diff_index' = IF current_diff_index = Len(compare_result.diffs) - 1
                                THEN 0 ELSE current_diff_index + 1
    /\ (call'.op = "prev_diff" /\ ~NoDiffs) =>
          current_diff_index' = IF current_diff_index = 0
                                THEN Len(compare_result.diffs) - 1
                                ELSE current_diff_index - 1
    /\ (call'.op \in {"next_diff", "prev_diff"} /\ NoDiffs) =>
          current_diff_index' = current_diff_index

\* C29: after any sequence of comparisons and next-diff, previous-diff and
\* select-diff steps the index is -1 when there is no result or no record
\* and an index of the record list otherwise; next-diff wraps from the last
\* record to 0, previous-diff from 0 to the last record, and both leave the
\* index alone when there are no records.
C29_DiffIndexInvariant == [](IndexInRange) /\ [][NavigationStep]_vars

\* C29 witness: previous-diff has wrapped from the first to the last of two
\* records.
C29_Witness ==
    /\ call.op = "prev_diff"
    /\ Len(compare_result.diffs) = 2
    /\ current_diff_index = 1

(***************************************************************************)
(* SpecLoad: files are loaded again between comparisons.                    *)
(***************************************************************************)
\* The sheets of one cell.
LoadSheets == {SheetData("S", <<<<Cell(v)>>>>) : v \in NavValues}

\* MainWindow._load_file(file_path, which): the workbook read from the file
\* replaces _workbook_a or _workbook_b; the panels and the preview are
\* refreshed.  `call` keeps the options of the last comparison.
LoadFile(which, workbook) ==
    /\ IF which = "a"
       THEN workbook_a' = workbook /\ UNCHANGED workbook_b
       ELSE workbook_b' = workbook /\ UNCHANGED workbook_a
    /\ call' = [call EXCEPT !.op = "load_file"]
    /\ UNCHANGED <<compare_result, current_diff_index>>

InitLoad == Loaded(LoadSheets, LoadSheets)

NextLoad ==
    \/ \E which \in {"a", "b"}, workbook \in LoadSheets : LoadFile(which, workbook)
    \/ \E o \in CaseOptions : DoCompareExact(o)
    \/ NextDiff
    \/ PrevDiff

SpecLoad == InitLoad /\ [][NextLoad]_vars

\* C30: a stored result is the result of comparing the workbooks that are
\* loaded now (under the options of the comparison that stored it), so the
\* record the index points at is a record of the loaded workbooks.
C30_ResultBelongsToLoadedWorkbooks ==
    compare_result.set =>
        compare_result.diffs = _compare_exact(workbook_a, workbook_b, call.options)

====
